---- MODULE Spec2Model ----
(***************************************************************************)
(* A model of the GitHub issue analyzer: the caching layer                *)
(* (src/src/cache.py), the analysis orchestration (src/src/analyzer.py),   *)
(* the scorer (src/src/scorer.py), the label mappings                      *)
(* (src/src/label_mappings.py), the history (src/src/history.py) and the   *)
(* run of the pipeline (main.py).                                          *)
(*                                                                         *)
(* Python values are modelled as follows.                                  *)
(*   - None is the record None; a list is a record with one field, list,  *)
(*     so that TLC can compare it with None.                               *)
(*   - a str is a TLA+ string; f-strings are concatenations with \o.       *)
(*   - a datetime is a day number 1, 2, ... (isoformat renders it); an     *)
(*     absent datetime is NoDatetime.                                      *)
(*   - a dict is a function from field names to values; a pydantic object  *)
(*     is a record of its class and its fields.                            *)
(*   - a diskcache.Cache is a function from keys to rows                   *)
(*     [value, expire_time]; time.time() is the variable now (seconds).    *)
(* diskcache is a library, not code of this repository: Cache.get returns  *)
(* the default for a missing row and for a row with expire_time <= now and *)
(* deletes nothing; Cache.set writes the row with expire_time = now +      *)
(* expire and then culls the rows whose expire_time < now; Cache.clear     *)
(* deletes every row.  The size limit of the cache (1 GB) is never         *)
(* reached in the model.                                                   *)
(***************************************************************************)
EXTENDS Integers, Sequences, FiniteSets, TLC

VARIABLES
    now,           \* time.time(), in seconds
    ticks,         \* number of clock advances made (bounded by MaxTicks)
    ops,           \* number of operations made (bounded by MaxOps)
    github_cache,  \* CacheManager.github_cache
    llm_cache,     \* CacheManager.llm_cache
    stats,         \* CacheManager.stats
    last,          \* the last operation: its name, namespace, key and return value
    gets,          \* history: number of gets made on each namespace
    sets,          \* history: per namespace and key, the sets made since the last clear
    clearedAll,    \* history: clear_all has been called
    has_cache,     \* IssueAnalyzer.cache is not None
    llm_calls,     \* history: number of chain.invoke calls made
    origin,        \* history: per llm key, the request tuple its row was stored for
    served,        \* history: per request tuple, the last analysis analyze_issue returned for it
    prompts,       \* history: per llm key, the prompt variables its row was assessed from
    batch,         \* the analyze_batch call in progress: its arguments, loop index and results
    events,        \* history: what analyze_batch did, in order
    keyrun,        \* two argument tuples of _make_llm_key and the keys computed for them
    matchrun,      \* a call of calculate_difficulty_score or calculate_time_score
    scorerun,      \* a call of score_issue: its arguments and the ScoredIssue returned
    rankrun,       \* a call of rank_issues: its arguments and the list returned
    builtin_mappings, \* LabelMappingManager.BUILTIN_MAPPINGS, as it is now
    custom_mappings,  \* LabelMappingManager._custom_mappings
    mappings_file,    \* the content of label_mappings.json, None while absent
    lookup,           \* the last mapping a caller got from get_mapping
    label_ops,        \* number of calls made of the manager (bounded by MaxLabelOps)
    history_file,     \* the content of history.json
    run,              \* the run_analysis call in progress or last made
    runs,             \* number of runs started (bounded by MaxRuns)
    tracked           \* history: keys of the issues ranked by a tracked run and not cleared since

cacheVars == <<now, ticks, ops, github_cache, llm_cache, stats, last, gets, sets, clearedAll>>
analyzerVars == <<has_cache, llm_calls, origin, served, prompts>>
batchVars == <<batch, events>>
keyVars == <<keyrun>>
scorerVars == <<matchrun, scorerun, rankrun>>
labelVars == <<builtin_mappings, custom_mappings, mappings_file, lookup, label_ops>>
runVars == <<history_file, run, runs, tracked>>
vars == <<cacheVars, analyzerVars, batchVars, keyVars, scorerVars, labelVars, runVars>>

----------------------------------------------------------------------------
(* Bounds of the model *)

MaxTicks == 2
MaxOps == 3
MaxBatch == 3
MaxLabelOps == 4
MaxRuns == 2

(* Program constants *)

GITHUB_CACHE_TTL_MINUTES == 15
LLM_CACHE_TTL_HOURS == 24

None == [none |-> TRUE]
NoDatetime == 0

----------------------------------------------------------------------------
(* hashlib.md5(s.encode()).hexdigest(): the digest is taken to be injective *)
(* on its input string.                                                     *)
Md5(s) == "md5(" \o s \o ")"

(* datetime.isoformat() *)
IsoFormat(d) == "2024-01-0" \o ToString(d) \o "T00:00:00"

(* CacheManager._make_github_key *)
_make_github_key(topic, language, difficulty) ==
    Md5("github_search:" \o topic \o ":" \o language \o ":" \o difficulty)

(* CacheManager._make_llm_key *)
_make_llm_key(issue_id, repo_name, issue_updated_at, user_skill, user_time) ==
    LET updated_str == IF issue_updated_at # NoDatetime
                       THEN IsoFormat(issue_updated_at) ELSE "unknown"
        key_data == "llm:" \o repo_name \o ":" \o ToString(issue_id) \o ":"
                    \o updated_str \o ":" \o user_skill \o ":" \o user_time
    IN  Md5(key_data)

----------------------------------------------------------------------------
(* diskcache.Cache, as CacheManager uses it *)

GithubTtlSeconds == GITHUB_CACHE_TTL_MINUTES * 60
LlmTtlSeconds == LLM_CACHE_TTL_HOURS * 3600

EmptyCache == [k \in {} |-> None]

(* Cache.get(key): the default None unless a row with expire_time > now exists *)
DiskGet_NoExpiry(cache, key, t) ==
    IF key \in DOMAIN cache THEN cache[key].value ELSE None

DiskGet(cache, key, t) ==
    IF key \in DOMAIN cache /\ cache[key].expire_time > t
    THEN cache[key].value
    ELSE None

(* Cache.set(key, value, expire=ttl): write the row, then cull the expired rows *)
DiskSet_KeepExpiry(cache, key, value, ttl, t) ==
    LET kept == {k \in DOMAIN cache : cache[k].expire_time >= t} \cup {key}
        row  == [value |-> value,
                 expire_time |-> IF key \in DOMAIN cache
                                 THEN cache[key].expire_time ELSE t + ttl]
    IN  [k \in kept |-> IF k = key THEN row ELSE cache[k]]

DiskSet(cache, key, value, ttl, t) ==
    LET kept == {k \in DOMAIN cache : cache[k].expire_time >= t} \cup {key}
        row  == [value |-> value, expire_time |-> t + ttl]
    IN  [k \in kept |-> IF k = key THEN row ELSE cache[k]]

----------------------------------------------------------------------------
(* Inputs *)

Topics == {"ai"}
Languages == {"python"}
Difficulties == {"beginner"}

(* search results as set_github_search stores them: lists of issue dicts *)
IssueLists == {[list |-> <<>>], [list |-> <<[id |-> 1]>>]}

(* IssueData (src/src/github_client.py): the fields the analysis reads *)
Issue1 == [id |-> 1, repo_name |-> "o/r", title |-> "t1", updated_at |-> 1,
           body |-> "", labels |-> <<>>]
Issue1Edited == [id |-> 1, repo_name |-> "o/r", title |-> "t1", updated_at |-> 2,
                 body |-> "", labels |-> <<>>]
Issue2 == [id |-> 2, repo_name |-> "o/r", title |-> "t2", updated_at |-> NoDatetime,
           body |-> "", labels |-> <<>>]
Issues == {Issue1, Issue1Edited, Issue2}

(* (user_skill, user_time) of a batch *)
BatchPrefs == {<<"beginner", "half_day">>}

(* IssueAnalysis (src/src/analyzer.py): the fields of the pydantic model *)
Fields == {"difficulty", "difficulty_confidence", "difficulty_reasoning",
           "estimated_time", "time_confidence", "time_reasoning", "summary",
           "technical_requirements", "clarity_score", "clarity_reasoning",
           "recommendation"}

FieldDefaults == [difficulty_reasoning |-> "", time_confidence |-> "medium",
                  clarity_reasoning |-> ""]

RequiredFields == Fields \ DOMAIN FieldDefaults

(* Structured responses of the assessment function *)
RespGood == [difficulty |-> "beginner", difficulty_confidence |-> "high",
             difficulty_reasoning |-> "r", estimated_time |-> "half_day",
             time_confidence |-> "high", time_reasoning |-> "r", summary |-> "s",
             technical_requirements |-> <<"Python">>, clarity_score |-> 8,
             clarity_reasoning |-> "r", recommendation |-> "good"]

RespOdd == [difficulty |-> "expert", difficulty_confidence |-> "low",
            estimated_time |-> "month", time_reasoning |-> "r", summary |-> "s",
            technical_requirements |-> <<>>, clarity_score |-> 11,
            recommendation |-> "odd"]

RespMissing == [difficulty |-> "advanced", estimated_time |-> "weekend",
                clarity_score |-> 3]

Responses == {RespGood, RespOdd, RespMissing}

(* An IssueAnalysis object built from a dict d (the parser's output, or   *)
(* the keyword arguments of a cached dict): pydantic checks that the       *)
(* required fields are present and fills the defaults of the others.  The  *)
(* object is a record holding its class and its fields.                    *)
Validates(d) == RequiredFields \subseteq DOMAIN d

IssueAnalysis(d) ==
    [cls |-> "IssueAnalysis",
     fields |-> [f \in Fields |-> IF f \in DOMAIN d THEN d[f] ELSE FieldDefaults[f]]]

(* IssueAnalysis.model_dump(): the plain dict of the object's fields *)
model_dump(a) == a.fields

Analyses == {IssueAnalysis(r) : r \in {r \in Responses : Validates(r)}}

----------------------------------------------------------------------------
(* CacheManager *)

InitStats == [github_hits |-> 0, github_misses |-> 0, llm_hits |-> 0, llm_misses |-> 0]

(* the counter updates of get_github_search and get_llm_analysis *)
CountGet_Both(st, ns, result) ==
    IF ns = "github"
    THEN [st EXCEPT !.github_hits = @ + 1, !.github_misses = @ + 1]
    ELSE [st EXCEPT !.llm_hits = @ + 1, !.llm_misses = @ + 1]

CountGet_Swapped(st, ns, result) ==
    IF ns = "github"
    THEN IF result # None THEN [st EXCEPT !.github_misses = @ + 1]
                           ELSE [st EXCEPT !.github_hits = @ + 1]
    ELSE IF result # None THEN [st EXCEPT !.llm_misses = @ + 1]
                           ELSE [st EXCEPT !.llm_hits = @ + 1]

CountGet_AlwaysMiss(st, ns, result) ==
    IF ns = "github"
    THEN [st EXCEPT !.github_misses = @ + 1]
    ELSE [st EXCEPT !.llm_misses = @ + 1]

CountGet(st, ns, result) ==
    IF ns = "github"
    THEN IF result # None THEN [st EXCEPT !.github_hits = @ + 1]
                           ELSE [st EXCEPT !.github_misses = @ + 1]
    ELSE IF result # None THEN [st EXCEPT !.llm_hits = @ + 1]
                           ELSE [st EXCEPT !.llm_misses = @ + 1]

(* history of the sets made on a key since the namespace was last cleared *)
NoSets == [github |-> EmptyCache, llm |-> EmptyCache]

NoteSet(ns, key, value) ==
    LET old == sets[ns]
        rec == [value |-> value, time |-> now,
                first |-> IF key \in DOMAIN old THEN old[key].first ELSE now]
    IN  [sets EXCEPT ![ns] = [k \in DOMAIN old \cup {key} |->
                                 IF k = key THEN rec ELSE old[k]]]

CacheInit ==
    /\ now = 0
    /\ ticks = 0
    /\ ops = 0
    /\ github_cache = EmptyCache
    /\ llm_cache = EmptyCache
    /\ stats = InitStats
    /\ last = [op |-> "init", ns |-> "", key |-> "", result |-> None]
    /\ gets = [github |-> 0, llm |-> 0]
    /\ sets = NoSets
    /\ clearedAll = FALSE

(* the clock advances between operations *)
TickSteps == {1, GithubTtlSeconds - 1, LlmTtlSeconds - 1}

Tick(d) ==
    /\ ticks < MaxTicks
    /\ now' = now + d
    /\ ticks' = ticks + 1
    /\ UNCHANGED <<ops, github_cache, llm_cache, stats, last, gets, sets, clearedAll>>

get_github_search(topic, language, difficulty) ==
    LET key == _make_github_key(topic, language, difficulty)
        result == DiskGet(github_cache, key, now)
    IN  /\ ops < MaxOps
        /\ ops' = ops + 1
        /\ stats' = CountGet(stats, "github", result)
        /\ last' = [op |-> "get", ns |-> "github", key |-> key, result |-> result]
        /\ gets' = [gets EXCEPT !.github = @ + 1]
        /\ UNCHANGED <<now, ticks, github_cache, llm_cache, sets, clearedAll>>

set_github_search(topic, language, difficulty, issues) ==
    LET key == _make_github_key(topic, language, difficulty)
    IN  /\ ops < MaxOps
        /\ ops' = ops + 1
        /\ github_cache' = DiskSet(github_cache, key, issues, GithubTtlSeconds, now)
        /\ last' = [op |-> "set", ns |-> "github", key |-> key, result |-> None]
        /\ sets' = NoteSet("github", key, issues)
        /\ UNCHANGED <<now, ticks, llm_cache, stats, gets, clearedAll>>

get_llm_analysis(issue_id, repo_name, issue_updated_at, user_skill, user_time) ==
    LET key == _make_llm_key(issue_id, repo_name, issue_updated_at, user_skill, user_time)
        result == DiskGet(llm_cache, key, now)
    IN  /\ ops < MaxOps
        /\ ops' = ops + 1
        /\ stats' = CountGet(stats, "llm", result)
        /\ last' = [op |-> "get", ns |-> "llm", key |-> key, result |-> result]
        /\ gets' = [gets EXCEPT !.llm = @ + 1]
        /\ UNCHANGED <<now, ticks, github_cache, llm_cache, sets, clearedAll>>

set_llm_analysis(issue_id, repo_name, issue_updated_at, user_skill, user_time, analysis) ==
    LET key == _make_llm_key(issue_id, repo_name, issue_updated_at, user_skill, user_time)
    IN  /\ ops < MaxOps
        /\ ops' = ops + 1
        /\ llm_cache' = DiskSet(llm_cache, key, analysis, LlmTtlSeconds, now)
        /\ last' = [op |-> "set", ns |-> "llm", key |-> key, result |-> None]
        /\ sets' = NoteSet("llm", key, analysis)
        /\ UNCHANGED <<now, ticks, github_cache, stats, gets, clearedAll>>

clear_all ==
    /\ ops < MaxOps
    /\ ops' = ops + 1
    /\ github_cache' = EmptyCache
    /\ llm_cache' = EmptyCache
    /\ stats' = [k \in DOMAIN stats |-> 0]
    /\ last' = [op |-> "clear", ns |-> "all", key |-> "", result |-> None]
    /\ sets' = NoSets
    /\ clearedAll' = TRUE
    /\ UNCHANGED <<now, ticks, gets>>

clear_github ==
    /\ ops < MaxOps
    /\ ops' = ops + 1
    /\ github_cache' = EmptyCache
    /\ last' = [op |-> "clear", ns |-> "github", key |-> "", result |-> None]
    /\ sets' = [sets EXCEPT !.github = EmptyCache]
    /\ UNCHANGED <<now, ticks, llm_cache, stats, gets, clearedAll>>

clear_llm_Both ==
    /\ ops < MaxOps
    /\ ops' = ops + 1
    /\ llm_cache' = EmptyCache
    /\ github_cache' = EmptyCache
    /\ last' = [op |-> "clear", ns |-> "llm", key |-> "", result |-> None]
    /\ sets' = [sets EXCEPT !.llm = EmptyCache]
    /\ UNCHANGED <<now, ticks, stats, gets, clearedAll>>

clear_llm ==
    /\ ops < MaxOps
    /\ ops' = ops + 1
    /\ llm_cache' = EmptyCache
    /\ last' = [op |-> "clear", ns |-> "llm", key |-> "", result |-> None]
    /\ sets' = [sets EXCEPT !.llm = EmptyCache]
    /\ UNCHANGED <<now, ticks, github_cache, stats, gets, clearedAll>>

----------------------------------------------------------------------------
(* Python strings and lists *)

(* str.lower(), on the strings of the model: every other one is in lower case *)
Lower(s) ==
    CASE s = "Beginner" -> "beginner"
      [] s = "Intermediate" -> "intermediate"
      [] s = "Half_Day" -> "half_day"
      [] s = "High" -> "high"
      [] s = "LOW" -> "low"
      [] s = "E-easy" -> "e-easy"
      [] s = "E-mentor" -> "e-mentor"
      [] s = "E-medium" -> "e-medium"
      [] s = "E-needs-mentor" -> "e-needs-mentor"
      [] s = "E-hard" -> "e-hard"
      [] s = "E-Easy" -> "e-easy"
      [] OTHER -> s

(* x in list: list.index(x) raises ValueError exactly when this is false *)
InList(order, x) == \E i \in 1..Len(order) : order[i] = x

(* ", ".join(parts) *)
RECURSIVE Join(_)
Join(parts) ==
    IF parts = <<>> THEN ""
    ELSE IF Len(parts) = 1 THEN parts[1]
    ELSE parts[1] \o ", " \o Join(Tail(parts))

----------------------------------------------------------------------------
(* LabelMappingManager (src/src/label_mappings.py).  A Python list is an    *)
(* object: two names can hold the same list, and list.append or list.remove *)
(* through one of them is seen through the other.  The label lists of a     *)
(* RepoLabelMapping are therefore references: [alias |-> TRUE] is the list  *)
(* object held in BUILTIN_MAPPINGS for the mapping's repository and level,  *)
(* [alias |-> FALSE, items |-> l] is a list no other object holds.          *)
(* BUILTIN_MAPPINGS is a class attribute, one dict for the whole process:   *)
(* builtin_mappings is its current content.                                 *)

(* the class attribute as written in the source; of its seven repositories *)
(* the model keeps the first                                                *)
BUILTIN_MAPPINGS ==
    [r \in {"rust-lang/rust"} |->
        [beginner |-> <<"E-easy", "E-mentor">>,
         intermediate |-> <<"E-medium", "E-needs-mentor">>,
         advanced |-> <<"E-hard">>,
         notes |-> "Rust uses E- prefix for difficulty levels"]]

BEGINNER_LABELS == <<"good first issue", "beginner", "easy", "starter",
                     "first-timers-only", "good-first-issue", "low-hanging-fruit">>
INTERMEDIATE_LABELS == <<"help wanted", "intermediate", "medium">>
ADVANCED_LABELS == <<"advanced", "hard", "expert", "complex">>

ValidDifficulties == <<"beginner", "intermediate", "advanced">>

OwnList(items) == [alias |-> FALSE, items |-> items]
BuiltinList == [alias |-> TRUE, items |-> <<>>]

(* RepoLabelMapping(repo_name=...): every list is a new empty list *)
RepoLabelMapping(repo_name) ==
    [repo_name |-> repo_name, beginner_labels |-> OwnList(<<>>),
     intermediate_labels |-> OwnList(<<>>), advanced_labels |-> OwnList(<<>>),
     notes |-> ""]

(* from_dict: data.get(key, []) returns the list object the dict holds, not *)
(* a copy.  shared tells whether data is an entry of BUILTIN_MAPPINGS, whose *)
(* lists live on, or a dict json.load has just built                         *)
from_dict(repo_name, data, shared) ==
    [repo_name |-> repo_name,
     beginner_labels |-> IF shared THEN BuiltinList ELSE OwnList(data.beginner),
     intermediate_labels |-> IF shared THEN BuiltinList ELSE OwnList(data.intermediate),
     advanced_labels |-> IF shared THEN BuiltinList ELSE OwnList(data.advanced),
     notes |-> data.notes]

(* getattr(mapping, difficulty + "_labels"), read: the items of the list *)
LabelList(mapping, difficulty, builtin) ==
    LET ref == mapping[difficulty \o "_labels"]
    IN  IF ref.alias THEN builtin[mapping.repo_name][difficulty] ELSE ref.items

to_dict(mapping, builtin) ==
    [beginner |-> LabelList(mapping, "beginner", builtin),
     intermediate |-> LabelList(mapping, "intermediate", builtin),
     advanced |-> LabelList(mapping, "advanced", builtin),
     notes |-> mapping.notes]

(* the content a RepoLabelMapping shows to a reader of its fields *)
MappingValue(mapping, builtin) ==
    [repo_name |-> mapping.repo_name,
     beginner_labels |-> LabelList(mapping, "beginner", builtin),
     intermediate_labels |-> LabelList(mapping, "intermediate", builtin),
     advanced_labels |-> LabelList(mapping, "advanced", builtin),
     notes |-> mapping.notes]

NoMappings == [r \in {} |-> None]

(* _load: the file's dict, each entry through from_dict; no file, no mapping *)
_load(file) ==
    IF file = None THEN NoMappings
    ELSE [r \in DOMAIN file |-> from_dict(r, file[r], FALSE)]

(* _save: json.dump of every mapping's to_dict() *)
_save(custom, builtin) == [r \in DOMAIN custom |-> to_dict(custom[r], builtin)]

DefaultMapping(repo_name) ==
    [repo_name |-> repo_name, beginner_labels |-> BEGINNER_LABELS,
     intermediate_labels |-> INTERMEDIATE_LABELS, advanced_labels |-> ADVANCED_LABELS,
     notes |-> "Using default global mappings"]

get_mapping_BuiltinFirst(repo_name) ==
    IF repo_name \in DOMAIN builtin_mappings
    THEN MappingValue(from_dict(repo_name, builtin_mappings[repo_name], TRUE),
                      builtin_mappings)
    ELSE IF repo_name \in DOMAIN custom_mappings
    THEN MappingValue(custom_mappings[repo_name], builtin_mappings)
    ELSE DefaultMapping(repo_name)

get_mapping(repo_name) ==
    IF repo_name \in DOMAIN custom_mappings
    THEN MappingValue(custom_mappings[repo_name], builtin_mappings)
    ELSE IF repo_name \in DOMAIN builtin_mappings
    THEN MappingValue(from_dict(repo_name, builtin_mappings[repo_name], TRUE),
                      builtin_mappings)
    ELSE DefaultMapping(repo_name)

has_custom_mapping(repo_name) == repo_name \in DOMAIN custom_mappings

has_builtin_mapping(repo_name) == repo_name \in DOMAIN builtin_mappings

(* some label of mapping_labels, lower-cased, is among the lower-cased labels *)
AnyLabelIn(mapping_labels, labels) ==
    \E i \in 1..Len(mapping_labels), j \in 1..Len(labels) :
        Lower(mapping_labels[i]) = Lower(labels[j])

get_difficulty_from_labels(repo_name, labels) ==
    LET mapping == get_mapping(repo_name)
    IN  IF AnyLabelIn(mapping.beginner_labels, labels) THEN [level |-> "beginner"]
        ELSE IF AnyLabelIn(mapping.intermediate_labels, labels) THEN [level |-> "intermediate"]
        ELSE IF AnyLabelIn(mapping.advanced_labels, labels) THEN [level |-> "advanced"]
        ELSE None

LabelsIdle ==
    /\ builtin_mappings = BUILTIN_MAPPINGS
    /\ custom_mappings = NoMappings
    /\ mappings_file = None
    /\ lookup = None
    /\ label_ops = 0

(* the bookkeeping every call of the manager's API shares *)
LabelOp ==
    /\ label_ops < MaxLabelOps
    /\ label_ops' = label_ops + 1

(* the assignment self._custom_mappings[repo_name] = mapping *)
WithMapping(custom, repo_name, mapping) ==
    [r \in DOMAIN custom \cup {repo_name} |-> IF r = repo_name THEN mapping ELSE custom[r]]

WithoutMapping(custom, repo_name) == [r \in DOMAIN custom \ {repo_name} |-> custom[r]]

(* `labels or []` of set_mapping *)
OrEmpty(labels) == IF labels = None THEN <<>> ELSE labels.list

set_mapping(repo_name, beginner_labels, intermediate_labels, advanced_labels, notes) ==
    LET mapping == [repo_name |-> repo_name,
                    beginner_labels |-> OwnList(OrEmpty(beginner_labels)),
                    intermediate_labels |-> OwnList(OrEmpty(intermediate_labels)),
                    advanced_labels |-> OwnList(OrEmpty(advanced_labels)),
                    notes |-> notes]
        custom == WithMapping(custom_mappings, repo_name, mapping)
    IN  /\ LabelOp
        /\ custom_mappings' = custom
        /\ mappings_file' = _save(custom, builtin_mappings)
        /\ UNCHANGED <<builtin_mappings, lookup>>

(* label_list.append(label) and label_list.remove(label) change the list   *)
(* object: the built-in one when the mapping holds it, the mapping's own    *)
(* otherwise                                                                *)
ChangeList(mapping, difficulty, new_items) ==
    IF mapping[difficulty \o "_labels"].alias THEN mapping
    ELSE [mapping EXCEPT ![difficulty \o "_labels"] = OwnList(new_items)]

ChangeBuiltin(mapping, difficulty, new_items) ==
    IF mapping[difficulty \o "_labels"].alias
    THEN [builtin_mappings EXCEPT ![mapping.repo_name][difficulty] = new_items]
    ELSE builtin_mappings

add_label(repo_name, difficulty, label) ==
    /\ LabelOp
    /\ IF ~InList(ValidDifficulties, difficulty)
       THEN UNCHANGED <<builtin_mappings, custom_mappings, mappings_file, lookup>>
       ELSE LET mapping == IF repo_name \in DOMAIN custom_mappings
                           THEN custom_mappings[repo_name]
                           ELSE RepoLabelMapping(repo_name)
                label_list == LabelList(mapping, difficulty, builtin_mappings)
                new_items == IF InList(label_list, label) THEN label_list
                             ELSE Append(label_list, label)
                builtin == ChangeBuiltin(mapping, difficulty, new_items)
                custom == WithMapping(custom_mappings, repo_name,
                                      ChangeList(mapping, difficulty, new_items))
            IN  /\ builtin_mappings' = builtin
                /\ custom_mappings' = custom
                /\ mappings_file' = _save(custom, builtin)
                /\ UNCHANGED lookup

(* list.remove(x): the first x goes *)
RECURSIVE RemoveFirst(_, _)
RemoveFirst(list, x) ==
    IF list = <<>> THEN <<>>
    ELSE IF Head(list) = x THEN Tail(list)
    ELSE <<Head(list)>> \o RemoveFirst(Tail(list), x)

(* an unknown difficulty makes getattr raise; nothing has changed by then *)
remove_label(repo_name, difficulty, label) ==
    /\ LabelOp
    /\ IF \/ repo_name \notin DOMAIN custom_mappings
          \/ ~InList(ValidDifficulties, difficulty)
          \/ ~InList(LabelList(custom_mappings[repo_name], difficulty, builtin_mappings),
                     label)
       THEN UNCHANGED <<builtin_mappings, custom_mappings, mappings_file, lookup>>
       ELSE LET mapping == custom_mappings[repo_name]
                new_items == RemoveFirst(LabelList(mapping, difficulty, builtin_mappings),
                                         label)
                builtin == ChangeBuiltin(mapping, difficulty, new_items)
                custom == WithMapping(custom_mappings, repo_name,
                                      ChangeList(mapping, difficulty, new_items))
            IN  /\ builtin_mappings' = builtin
                /\ custom_mappings' = custom
                /\ mappings_file' = _save(custom, builtin)
                /\ UNCHANGED lookup

remove_mapping(repo_name) ==
    /\ LabelOp
    /\ IF repo_name \in DOMAIN custom_mappings
       THEN /\ custom_mappings' = WithoutMapping(custom_mappings, repo_name)
            /\ mappings_file' = _save(WithoutMapping(custom_mappings, repo_name),
                                      builtin_mappings)
            /\ UNCHANGED <<builtin_mappings, lookup>>
       ELSE UNCHANGED <<builtin_mappings, custom_mappings, mappings_file, lookup>>

import_builtin(repo_name) ==
    /\ LabelOp
    /\ IF repo_name \notin DOMAIN builtin_mappings
       THEN UNCHANGED <<builtin_mappings, custom_mappings, mappings_file, lookup>>
       ELSE LET mapping == from_dict(repo_name, builtin_mappings[repo_name], TRUE)
                custom == WithMapping(custom_mappings, repo_name, mapping)
            IN  /\ custom_mappings' = custom
                /\ mappings_file' = _save(custom, builtin_mappings)
                /\ UNCHANGED <<builtin_mappings, lookup>>

(* a caller asks for a repository's mapping and reads it *)
GetMapping(repo_name) ==
    /\ lookup' = [repo_name |-> repo_name, mapping |-> get_mapping(repo_name)]
    /\ lookup' # lookup
    /\ UNCHANGED <<builtin_mappings, custom_mappings, mappings_file, label_ops>>

(* each CLI command runs in a process of its own: the module is imported   *)
(* anew and LabelMappingManager() loads the file                           *)
NewProcess ==
    /\ LabelOp
    /\ builtin_mappings' = BUILTIN_MAPPINGS
    /\ custom_mappings' = _load(mappings_file)
    /\ lookup' = None
    /\ UNCHANGED mappings_file

(* the calls made of the manager *)
LabelRepos == {"rust-lang/rust", "o/r"}
LabelNames == {"E-easy", "x"}
LabelDifficulties == {"beginner", "advanced", "expert"}
SetMappingArgs ==
    {[beginner_labels |-> [list |-> <<"x">>], intermediate_labels |-> None,
      advanced_labels |-> [list |-> <<"E-easy">>], notes |-> "mine"]}

----------------------------------------------------------------------------
(* IssueAnalyzer.analyze_issue *)

Raised == [raised |-> TRUE]

(* what chain.invoke can do: raise (network failure, rate limit), or return *)
(* the response the parser then validates                                    *)
Outcomes == {Raised} \cup Responses

(* `if cached:` is the truth value of a dict: not None and not empty *)
Truthy_Never(cached) == FALSE

Truthy(cached) == cached # None /\ DOMAIN cached # {}

Request(issue, user_skill, user_time) ==
    [issue |-> issue, user_skill |-> user_skill, user_time |-> user_time]

RequestKey(r) ==
    _make_llm_key(r.issue.id, r.issue.repo_name, r.issue.updated_at, r.user_skill, r.user_time)

(* the requests made of analyze_issue: --skill and --time are free-form    *)
(* strings, so one may hold the ':' that _make_llm_key separates with      *)
Requests == {Request(Issue1, "a:b", "c"), Request(Issue1, "a", "b:c"),
             Request(Issue1Edited, "a:b", "c")}

(* the key analyze_issue stores the result under *)
StoreKey_NoTime(issue, user_skill, user_time) ==
    _make_llm_key(issue.id, issue.repo_name, issue.updated_at, user_skill, "")

StoreKey_WithLabels(issue, user_skill, user_time) ==
    _make_llm_key(issue.id, issue.repo_name \o Join(issue.labels), issue.updated_at,
                  user_skill, user_time)

StoreKey(issue, user_skill, user_time) ==
    _make_llm_key(issue.id, issue.repo_name, issue.updated_at, user_skill, user_time)

NotServed == [r \in {} |-> None]

(* str.upper(), on the difficulty levels *)
Upper(s) ==
    CASE s = "beginner" -> "BEGINNER"
      [] s = "intermediate" -> "INTERMEDIATE"
      [] s = "advanced" -> "ADVANCED"
      [] OTHER -> s

(* the hint is a str wrapped in a record, or None *)
_get_label_difficulty_hint(issue) ==
    IF issue.labels = <<>> THEN None
    ELSE LET difficulty == get_difficulty_from_labels(issue.repo_name, issue.labels)
             source == IF has_custom_mapping(issue.repo_name) THEN "custom mapping"
                       ELSE IF has_builtin_mapping(issue.repo_name) THEN "known repo pattern"
                       ELSE "standard labels"
         IN  IF difficulty = None THEN None
             ELSE [text |-> "Labels suggest " \o Upper(difficulty.level) \o " difficulty ("
                            \o source \o ")"]

(* the variables chain.invoke gets that differ between the issues of the   *)
(* model; bodies are shorter than the 3000 characters kept                  *)
PromptInput(issue, user_skill, user_time) ==
    LET label_hint == _get_label_difficulty_hint(issue)
        labels_display == IF issue.labels = <<>> THEN "None" ELSE Join(issue.labels)
    IN  [title |-> issue.title,
         repo_name |-> issue.repo_name,
         labels |-> IF label_hint = None THEN labels_display
                    ELSE labels_display \o "\n   [Label hint: " \o label_hint.text \o "]",
         body |-> IF issue.body = "" THEN "No description provided" ELSE issue.body,
         user_skill |-> user_skill,
         user_time |-> user_time]

AnalyzerInit(withCache) ==
    /\ has_cache = withCache
    /\ llm_calls = 0
    /\ origin = EmptyCache
    /\ served = NotServed
    /\ prompts = EmptyCache

(* One call of analyze_issue, whole: the lookup, the assessment on a miss  *)
(* and the store.  last' holds what the call returned (Raised if it raised) *)
AnalyzeIssueCall(issue, user_skill, user_time, out) ==
    LET req    == Request(issue, user_skill, user_time)
        key    == _make_llm_key(issue.id, issue.repo_name, issue.updated_at,
                             user_skill, user_time)
        cached == IF has_cache THEN DiskGet(llm_cache, key, now) ELSE None
        hit    == has_cache /\ Truthy(cached)
        ok     == out # Raised /\ Validates(out)
        result == IF hit THEN IssueAnalysis(cached)
                  ELSE IF ok THEN IssueAnalysis(out) ELSE Raised
        store  == has_cache /\ ~hit /\ ok
        skey   == StoreKey(issue, user_skill, user_time)
    IN  /\ stats' = IF has_cache THEN CountGet(stats, "llm", cached) ELSE stats
        /\ gets' = IF has_cache THEN [gets EXCEPT !.llm = @ + 1] ELSE gets
        /\ llm_calls' = IF hit THEN llm_calls ELSE llm_calls + 1
        /\ llm_cache' = IF store
                        THEN DiskSet(llm_cache, skey, model_dump(result), LlmTtlSeconds, now)
                        ELSE llm_cache
        /\ sets' = IF store THEN NoteSet("llm", skey, model_dump(result)) ELSE sets
        /\ origin' = IF store
                     THEN [k \in DOMAIN origin \cup {skey} |->
                              IF k = skey THEN req ELSE origin[k]]
                     ELSE origin
        /\ served' = IF result # Raised
                     THEN [r \in DOMAIN served \cup {req} |->
                              IF r = req
                              THEN [analysis |-> result,
                                    until |-> IF hit THEN llm_cache[key].expire_time
                                              ELSE IF store THEN now + LlmTtlSeconds
                                              ELSE now]
                              ELSE served[r]]
                     ELSE served
        /\ prompts' = IF store
                      THEN [k \in DOMAIN prompts \cup {skey} |->
                               IF k = skey THEN PromptInput(issue, user_skill, user_time)
                               ELSE prompts[k]]
                      ELSE prompts
        /\ last' = [op |-> "analyze", ns |-> "llm", key |-> key, result |-> result,
                    req |-> req, hit |-> hit, called |-> ~hit,
                    prompt |-> IF hit THEN None
                               ELSE PromptInput(issue, user_skill, user_time)]
        /\ UNCHANGED <<now, ticks, github_cache, clearedAll>>

analyze_issue(issue, user_skill, user_time, out) ==
    /\ ops < MaxOps
    /\ ops' = ops + 1
    /\ AnalyzeIssueCall(issue, user_skill, user_time, out)

----------------------------------------------------------------------------
(* IssueAnalyzer.analyze_batch, one loop step at a time.  batch.i is the   *)
(* index of enumerate(issues); the issue at index i is batch.issues[i + 1]. *)

BatchIdle == [pc |-> "idle", issues |-> <<>>, user_skill |-> "", user_time |-> "",
              has_callback |-> FALSE, i |-> 0, results |-> <<>>]

BatchInit ==
    /\ batch = BatchIdle
    /\ events = <<>>

BatchInputs == UNION {[1..n -> Issues] : n \in 0..MaxBatch}

(* the loop moves to the next issue, or returns after the last one *)
NextIssue(b) ==
    [b EXCEPT !.i = @ + 1,
              !.pc = IF b.i + 1 < Len(b.issues) THEN "progress" ELSE "returned"]

(* except Exception: print the warning and continue *)
OnItemFailure_Abort(b) == [b EXCEPT !.pc = "raised"]

OnItemFailure_Analyze(b) == [b EXCEPT !.pc = "analyze"]

OnItemFailure(b) == NextIssue(b)

(* results.append((issue, analysis)) *)
AppendResult_Prepend(results, issue, analysis) == <<<<issue, analysis>>>> \o results

AppendResult(results, issue, analysis) == Append(results, <<issue, analysis>>)

(* the arguments of progress_callback(i + 1, len(issues), issue.title) *)
ProgressArgs_ZeroBased(b) == <<b.i, Len(b.issues), b.issues[b.i + 1].title>>

ProgressArgs(b) == <<b.i + 1, Len(b.issues), b.issues[b.i + 1].title>>

BatchStart(issues, user_skill, user_time, has_callback) ==
    /\ batch.pc = "idle"
    /\ batch' = [pc |-> IF Len(issues) > 0 THEN "progress" ELSE "returned",
                 issues |-> issues, user_skill |-> user_skill, user_time |-> user_time,
                 has_callback |-> has_callback, i |-> 0, results |-> <<>>]
    /\ UNCHANGED <<events, cacheVars, analyzerVars>>

(* if progress_callback: progress_callback(...); the callback may raise *)
BatchProgress(raises) ==
    /\ batch.pc = "progress"
    /\ IF ~batch.has_callback
       THEN /\ batch' = [batch EXCEPT !.pc = "analyze"]
            /\ UNCHANGED events
       ELSE IF raises
       THEN /\ batch' = OnItemFailure(batch)
            /\ events' = events \o <<[type |-> "progress", i |-> batch.i,
                                      args |-> ProgressArgs(batch)],
                                     [type |-> "done", i |-> batch.i, ok |-> FALSE,
                                      analysis |-> Raised]>>
       ELSE /\ batch' = [batch EXCEPT !.pc = "analyze"]
            /\ events' = Append(events, [type |-> "progress", i |-> batch.i,
                                         args |-> ProgressArgs(batch)])
    /\ UNCHANGED <<cacheVars, analyzerVars>>

(* analysis = self.analyze_issue(...); results.append(...), or the except *)
BatchAnalyze(out) ==
    /\ batch.pc = "analyze"
    /\ AnalyzeIssueCall(batch.issues[batch.i + 1], batch.user_skill, batch.user_time, out)
    /\ IF last'.result # Raised
       THEN batch' = NextIssue([batch EXCEPT !.results =
                         AppendResult(@, batch.issues[batch.i + 1], last'.result)])
       ELSE batch' = OnItemFailure(batch)
    /\ events' = events \o <<[type |-> "analyze", i |-> batch.i],
                             [type |-> "done", i |-> batch.i, ok |-> last'.result # Raised,
                              analysis |-> last'.result]>>
    /\ UNCHANGED ops

----------------------------------------------------------------------------
(* _make_llm_key as a pure function: two argument tuples and their keys *)

KeyRepos == {"o/r", "o/q"}
KeyIds == {1, 2}
KeyDates == {NoDatetime, 1, 2}
KeySkills == {"beginner", "a", "a:b"}
KeyTimes == {"half_day", "c", "b:c"}
KeyArgs == KeyIds \X KeyRepos \X KeyDates \X KeySkills \X KeyTimes

KeyIdle == [a |-> <<>>, b |-> <<>>, done |-> FALSE, ka |-> "", kb |-> ""]

KeyInit == \E a \in KeyArgs, b \in KeyArgs :
    keyrun = [a |-> a, b |-> b, done |-> FALSE, ka |-> "", kb |-> ""]

MakeKeys ==
    /\ ~keyrun.done
    /\ keyrun' = [keyrun EXCEPT
                    !.done = TRUE,
                    !.ka = _make_llm_key(keyrun.a[1], keyrun.a[2], keyrun.a[3],
                                      keyrun.a[4], keyrun.a[5]),
                    !.kb = _make_llm_key(keyrun.b[1], keyrun.b[2], keyrun.b[3],
                                      keyrun.b[4], keyrun.b[5])]

----------------------------------------------------------------------------
(* IssueScorer (src/src/scorer.py).  A float is modelled by the integer    *)
(* number of its thousandths (0.40 is 400, 1.0 is 1000): every score and   *)
(* weight of the scorer is a decimal with at most three places, and so is  *)
(* every product and sum it forms.  The rounding of binary floating point  *)
(* (below 1e-15 on these values) is not modelled.                          *)

DIFFICULTY_MATCH_WEIGHT == 400
TIME_MATCH_WEIGHT == 300
REPO_HEALTH_WEIGHT == 150
ISSUE_CLARITY_WEIGHT == 150

MIN_REPO_STARS == 50

(* x * y on floats *)
Mul(x, y) == (x * y) \div 1000

Abs(x) == IF x < 0 THEN 0 - x ELSE x
Min(x, y) == IF x < y THEN x ELSE y
Max(x, y) == IF x > y THEN x ELSE y

(* str.replace("_", " "), on the strings of the model: no other one holds '_' *)
ReplaceUnderscore(s) ==
    CASE s = "quick_win" -> "quick win"
      [] s = "half_day" -> "half day"
      [] s = "Half_Day" -> "Half Day"
      [] s = "full_day" -> "full day"
      [] s = "deep_dive" -> "deep dive"
      [] OTHER -> s

(* IssueScorer.__init__ *)
difficulty_order == <<"beginner", "intermediate", "advanced">>
time_order == <<"quick_win", "half_day", "full_day", "weekend", "deep_dive">>

(* list.index(x) for an x of the list: its first position, counted from 0 *)
Index(order, x) ==
    (CHOOSE i \in 1..Len(order) : order[i] = x /\ \A j \in 1..(i - 1) : order[j] # x) - 1

calculate_difficulty_score_Flat(actual, preferred) ==
    LET actual_idx == Index(difficulty_order, Lower(actual))
        preferred_idx == Index(difficulty_order, Lower(preferred))
    IN  IF ~InList(difficulty_order, Lower(actual)) \/ ~InList(difficulty_order, Lower(preferred))
        THEN 500
        ELSE LET diff == Abs(actual_idx - preferred_idx)
             IN  IF diff = 0 THEN 1000 ELSE 600

calculate_difficulty_score(actual, preferred) ==
    LET actual_idx == Index(difficulty_order, Lower(actual))
        preferred_idx == Index(difficulty_order, Lower(preferred))
    IN  IF ~InList(difficulty_order, Lower(actual)) \/ ~InList(difficulty_order, Lower(preferred))
        THEN 500
        ELSE LET diff == Abs(actual_idx - preferred_idx)
             IN  IF diff = 0 THEN 1000 ELSE IF diff = 1 THEN 600 ELSE 200

calculate_time_score_Far(actual, preferred) ==
    LET actual_idx == Index(time_order, Lower(actual))
        preferred_idx == Index(time_order, Lower(preferred))
    IN  IF ~InList(time_order, Lower(actual)) \/ ~InList(time_order, Lower(preferred))
        THEN 500
        ELSE LET diff == Abs(actual_idx - preferred_idx)
             IN  IF diff = 0 THEN 1000
                 ELSE IF diff = 1 THEN 700
                 ELSE IF diff = 2 THEN 400
                 ELSE IF diff = 3 THEN 100
                 ELSE 500

calculate_time_score(actual, preferred) ==
    LET actual_idx == Index(time_order, Lower(actual))
        preferred_idx == Index(time_order, Lower(preferred))
    IN  IF ~InList(time_order, Lower(actual)) \/ ~InList(time_order, Lower(preferred))
        THEN 500
        ELSE LET diff == Abs(actual_idx - preferred_idx)
             IN  IF diff = 0 THEN 1000
                 ELSE IF diff = 1 THEN 700
                 ELSE IF diff = 2 THEN 400
                 ELSE 100

(* RepoHealth as GitHubClient.check_repo_health builds it; forks and      *)
(* open_issues, which the scorer never reads, are left out                 *)
check_repo_health(stars, days_since_update, has_contributing) ==
    [stars |-> stars,
     days_since_update |-> days_since_update,
     has_contributing_guide |-> has_contributing,
     is_healthy |-> days_since_update < 180 /\ stars >= MIN_REPO_STARS]

calculate_health_score_NoBonus(repo_health) ==
    IF repo_health = None
    THEN 700
    ELSE LET s1 == IF repo_health.is_healthy THEN 500 ELSE 0
             s2 == IF repo_health.has_contributing_guide THEN s1 + 300 ELSE s1
         IN  Min(s2, 1000)

calculate_health_score(repo_health) ==
    IF repo_health = None
    THEN 700
    ELSE LET s1 == IF repo_health.is_healthy THEN 500 ELSE 0
             s2 == IF repo_health.has_contributing_guide THEN s1 + 300 ELSE s1
             s3 == IF repo_health.days_since_update < 30 THEN s2 + 200 ELSE s2
         IN  Min(s3, 1000)

calculate_clarity_score_NoClamp(clarity) == clarity * 100

calculate_clarity_score_FromOne(clarity) == Max(1, Min(clarity, 10)) * 100

calculate_clarity_score(clarity) == Max(0, Min(clarity, 10)) * 100

_get_match_description(score, component) ==
    IF score >= 900 THEN "Excellent match"
    ELSE IF score >= 700 THEN "Good match"
    ELSE IF score >= 500 THEN "Partial match"
    ELSE IF score >= 300 THEN "Weak match"
    ELSE "Poor match"

_calculate_overall_confidence_Majority(components) ==
    LET confidences == [i \in 1..Len(components) |-> Lower(components[i].confidence)]
    IN  IF \A i \in 1..Len(confidences) : confidences[i] = "low" THEN "low"
        ELSE IF \A i \in 1..Len(confidences) : confidences[i] = "high" THEN "high"
        ELSE "medium"

_calculate_overall_confidence(components) ==
    LET confidences == [i \in 1..Len(components) |-> Lower(components[i].confidence)]
    IN  IF \E i \in 1..Len(confidences) : confidences[i] = "low" THEN "low"
        ELSE IF \A i \in 1..Len(confidences) : confidences[i] = "high" THEN "high"
        ELSE "medium"

(* ScoreComponent(name=..., score=..., weight=..., weighted_score=score * weight, ...) *)
ScoreComponent(name, score, weight, confidence, reasoning, kind) ==
    [name |-> name, score |-> score, weight |-> weight,
     weighted_score |-> Mul(score, weight), confidence |-> confidence,
     reasoning |-> reasoning,
     match_description |-> _get_match_description(score, kind)]

(* x or 'medium', x a str *)
OrMedium(x) == IF x = "" THEN "medium" ELSE x

(* sum(c.weighted_score for c in components) *)
RECURSIVE SumWeighted(_)
SumWeighted(components) ==
    IF components = <<>> THEN 0
    ELSE SumWeighted(SubSeq(components, 1, Len(components) - 1))
         + components[Len(components)].weighted_score

total_score_SkipClarity(components) == SumWeighted(SubSeq(components, 1, 3))

total_score(components) == SumWeighted(components)

score_issue(issue, analysis, user_skill, user_time, repo_health) ==
    LET a == analysis.fields
        difficulty_score == calculate_difficulty_score(a.difficulty, user_skill)
        diff_reasoning ==
            IF difficulty_score = 1000
            THEN "Perfect match: issue is " \o a.difficulty \o ", you selected " \o user_skill
            ELSE IF difficulty_score >= 600
            THEN "Close match: issue is " \o a.difficulty \o ", you selected " \o user_skill
            ELSE "Mismatch: issue is " \o a.difficulty \o ", but you selected " \o user_skill
        diff_confidence == OrMedium(a.difficulty_confidence)
        time_score == calculate_time_score(a.estimated_time, user_time)
        time_display == ReplaceUnderscore(a.estimated_time)
        user_time_display == ReplaceUnderscore(user_time)
        time_reasoning ==
            IF time_score = 1000
            THEN "Perfect match: estimated " \o time_display \o ", you have " \o user_time_display
            ELSE IF time_score >= 700
            THEN "Close match: estimated " \o time_display \o ", you have " \o user_time_display
            ELSE "Time mismatch: estimated " \o time_display \o ", but you have "
                 \o user_time_display
        time_confidence == OrMedium(a.time_confidence)
        health_score == calculate_health_score(repo_health)
        health_parts ==
            IF repo_health = None THEN <<>>
            ELSE <<IF repo_health.days_since_update < 30 THEN "very active"
                   ELSE IF repo_health.days_since_update < 90 THEN "recently updated"
                   ELSE "last updated " \o ToString(repo_health.days_since_update)
                        \o " days ago">>
                 \o (IF repo_health.has_contributing_guide
                     THEN <<"has CONTRIBUTING.md">> ELSE <<>>)
        health_reasoning ==
            IF repo_health # None
            THEN "Repository: " \o Join(health_parts)
            ELSE "Repository health not checked (using default score)"
        health_confidence == IF repo_health # None THEN "high" ELSE "low"
        clarity_score == calculate_clarity_score(a.clarity_score)
        clarity_reasoning ==
            IF a.clarity_reasoning # "" THEN a.clarity_reasoning
            ELSE IF a.clarity_score >= 8
            THEN "Well-written issue with clear requirements"
            ELSE IF a.clarity_score >= 5
            THEN "Moderately clear, some details may need clarification"
            ELSE "Unclear issue, may require discussion with maintainers"
        components ==
            <<ScoreComponent("Difficulty Match", difficulty_score, DIFFICULTY_MATCH_WEIGHT,
                             diff_confidence, diff_reasoning, "difficulty"),
              ScoreComponent("Time Match", time_score, TIME_MATCH_WEIGHT,
                             time_confidence, time_reasoning, "time"),
              ScoreComponent("Repo Health", health_score, REPO_HEALTH_WEIGHT,
                             health_confidence, health_reasoning, "health"),
              ScoreComponent("Issue Clarity", clarity_score, ISSUE_CLARITY_WEIGHT,
                             "high", clarity_reasoning, "clarity")>>
    IN  [issue |-> issue,
         analysis |-> analysis,
         score |-> total_score(components),
         score_breakdown |-> [difficulty |-> difficulty_score, time |-> time_score,
                              health |-> health_score, clarity |-> clarity_score],
         score_components |-> components,
         overall_confidence |-> _calculate_overall_confidence(components)]

(* list.sort(key=lambda x: x.score, reverse=True): a stable sort, so that  *)
(* objects with equal keys keep their order.  An object of the list is a   *)
(* record [pos, item]: item is the ScoredIssue, pos its identity, the      *)
(* position rank_issues appended it at.                                    *)
(* whether y, ahead of x in the list, stays ahead of it *)
StaysAhead_Strict(y, x) == y.item.score > x.item.score

StaysAhead(y, x) == y.item.score >= x.item.score

RECURSIVE InsertByScore(_, _)
InsertByScore(sorted, x) ==
    IF sorted = <<>> THEN <<x>>
    ELSE IF StaysAhead(Head(sorted), x)
    THEN <<Head(sorted)>> \o InsertByScore(Tail(sorted), x)
    ELSE <<x>> \o sorted

RECURSIVE SortByScore(_)
SortByScore(scored) ==
    IF scored = <<>> THEN <<>>
    ELSE InsertByScore(SortByScore(SubSeq(scored, 1, Len(scored) - 1)),
                       scored[Len(scored)])

rank_issues_WithHealth(analyzed_issues, user_skill, user_time) ==
    LET scored == [i \in 1..Len(analyzed_issues) |->
                      [pos |-> i,
                       item |-> score_issue(analyzed_issues[i][1], analyzed_issues[i][2],
                                            user_skill, user_time,
                                            check_repo_health(50, 29, TRUE))]]
    IN  SortByScore(scored)

rank_issues(analyzed_issues, user_skill, user_time) ==
    LET scored == [i \in 1..Len(analyzed_issues) |->
                      [pos |-> i,
                       item |-> score_issue(analyzed_issues[i][1], analyzed_issues[i][2],
                                            user_skill, user_time, None)]]
    IN  SortByScore(scored)

(* Inputs of the scorer *)

ClarityMargin == 1
MaxRank == 4

DifficultyLabels == {"beginner", "intermediate", "advanced", "Beginner", "expert"}
TimeLabels == {"quick_win", "half_day", "full_day", "weekend", "deep_dive",
               "Half_Day", "month"}

ScoreDifficulties == {"beginner", "Intermediate", "advanced", "expert"}
ScoreSkills == {"beginner", "advanced"}
ScoreTimes == {"quick_win", "half_day", "full_day", "weekend", "deep_dive", "month"}
ScoreUserTimes == {"quick_win", "half_day"}
ScoreClarities == (0 - ClarityMargin)..(10 + ClarityMargin)
DifficultyConfidences == {"high", "low", "High", ""}
TimeConfidences == {"high", "medium", "LOW", "certain"}
ClarityReasonings == {"", "r"}

RepoHealths ==
    {None} \cup {check_repo_health(r[1], r[2], g) :
                    r \in {<<50, 29>>, <<10, 29>>, <<50, 30>>, <<50, 200>>}, g \in BOOLEAN}

ScoreAnalyses ==
    {IssueAnalysis([RespGood EXCEPT !.difficulty = d, !.difficulty_confidence = dc,
                                    !.estimated_time = t, !.time_confidence = tc,
                                    !.clarity_score = c, !.clarity_reasoning = cr]) :
        d \in ScoreDifficulties, dc \in DifficultyConfidences, t \in ScoreTimes,
        tc \in TimeConfidences, c \in ScoreClarities, cr \in ClarityReasonings}

RespHard == [RespGood EXCEPT !.difficulty = "advanced", !.difficulty_confidence = "medium",
                             !.estimated_time = "deep_dive", !.clarity_score = 3]

(* (issue, analysis) pairs as analyze_batch returns them *)
RankItems == {<<i, IssueAnalysis(r)>> : i \in {Issue1, Issue2},
                                        r \in {RespGood, RespOdd, RespHard}}
RankInputs == UNION {[1..n -> RankItems] : n \in 0..MaxRank}

(* calls of calculate_difficulty_score or calculate_time_score: on          *)
(* (actual, preferred), on the two swapped, and on (other, preferred)       *)
MatchIdle == [fn |-> "", actual |-> "", preferred |-> "", other |-> "", done |-> FALSE,
              score |-> None, swapped |-> None, other_score |-> None]

MatchInit ==
    \E fn \in {"difficulty", "time"} :
       \E a, p, o \in (IF fn = "difficulty" THEN DifficultyLabels ELSE TimeLabels) :
          matchrun = [fn |-> fn, actual |-> a, preferred |-> p, other |-> o, done |-> FALSE,
                      score |-> None, swapped |-> None, other_score |-> None]

CalcDifficulty ==
    /\ matchrun.fn = "difficulty"
    /\ ~matchrun.done
    /\ matchrun' = [matchrun EXCEPT
          !.done = TRUE,
          !.score = calculate_difficulty_score(matchrun.actual, matchrun.preferred),
          !.swapped = calculate_difficulty_score(matchrun.preferred, matchrun.actual),
          !.other_score = calculate_difficulty_score(matchrun.other, matchrun.preferred)]

CalcTime ==
    /\ matchrun.fn = "time"
    /\ ~matchrun.done
    /\ matchrun' = [matchrun EXCEPT
          !.done = TRUE,
          !.score = calculate_time_score(matchrun.actual, matchrun.preferred),
          !.swapped = calculate_time_score(matchrun.preferred, matchrun.actual),
          !.other_score = calculate_time_score(matchrun.other, matchrun.preferred)]

(* one call of score_issue *)
ScoreIdle == [analysis |-> None, user_skill |-> "", user_time |-> "",
              repo_health |-> None, done |-> FALSE, scored |-> None]

ScoreInit ==
    \E a \in ScoreAnalyses, s \in ScoreSkills, t \in ScoreUserTimes, h \in RepoHealths :
       scorerun = [analysis |-> a, user_skill |-> s, user_time |-> t,
                   repo_health |-> h, done |-> FALSE, scored |-> None]

ScoreIssue ==
    /\ ~scorerun.done
    /\ scorerun' = [scorerun EXCEPT
                      !.done = TRUE,
                      !.scored = score_issue(Issue1, scorerun.analysis, scorerun.user_skill,
                                             scorerun.user_time, scorerun.repo_health)]

(* one call of rank_issues *)
RankIdle == [analyzed_issues |-> <<>>, user_skill |-> "", user_time |-> "",
             done |-> FALSE, ranked |-> <<>>]

RankInit ==
    \E l \in RankInputs, p \in BatchPrefs :
       rankrun = [analyzed_issues |-> l, user_skill |-> p[1], user_time |-> p[2],
                  done |-> FALSE, ranked |-> <<>>]

RankIssues ==
    /\ ~rankrun.done
    /\ rankrun' = [rankrun EXCEPT
                     !.done = TRUE,
                     !.ranked = rank_issues(rankrun.analyzed_issues, rankrun.user_skill,
                                            rankrun.user_time)]

ScorerIdle ==
    /\ matchrun = MatchIdle
    /\ scorerun = ScoreIdle
    /\ rankrun = RankIdle

----------------------------------------------------------------------------
(* HistoryManager (src/src/history.py) and run_analysis (main.py).  Each   *)
(* run is a process of its own: it builds a CacheManager if use_cache, a    *)
(* HistoryManager that loads history.json, and an IssueAnalyzer; the disk   *)
(* cache and history.json outlive it.  The time stamps of a history entry   *)
(* are left out.                                                            *)

ISSUES_TO_ANALYZE == 20

Issue3 == [id |-> 3, repo_name |-> "o/q", title |-> "t3", updated_at |-> 1,
           body |-> "", labels |-> <<>>]

_make_key(repo_name, issue_id) == repo_name \o "#" \o ToString(issue_id)

NoHistory == [k \in {} |-> None]

(* one record_view call on the loaded history: the dict it leaves, which    *)
(* _save writes to history.json                                             *)
record_view(history, issue_id, repo_name, title, difficulty) ==
    LET key == _make_key(repo_name, issue_id)
        entry == IF key \in DOMAIN history
                 THEN [history[key] EXCEPT
                         !.view_count = @ + 1,
                         !.title = IF title # "" THEN title ELSE @,
                         !.difficulty = IF difficulty # "" THEN difficulty ELSE @]
                 ELSE [issue_id |-> issue_id, repo_name |-> repo_name, title |-> title,
                       view_count |-> 1, status |-> "viewed", difficulty |-> difficulty]
    IN  [k \in DOMAIN history \cup {key} |-> IF k = key THEN entry ELSE history[k]]

(* for scored in ranked: history.record_view(...) *)
RECURSIVE RecordRanked(_, _)
RecordRanked(history, ranked) ==
    IF ranked = <<>> THEN history
    ELSE RecordRanked(record_view(history, ranked[1].item.issue.id,
                                  ranked[1].item.issue.repo_name,
                                  ranked[1].item.issue.title,
                                  ranked[1].item.analysis.fields.difficulty),
                      Tail(ranked))

get_seen_issue_keys(history) == DOMAIN history

IsUnseen_All(history, issue) == TRUE

IsUnseen(history, issue) ==
    _make_key(issue.repo_name, issue.issue_id) \notin get_seen_issue_keys(history)

filter_unseen(history, issues) ==
    SelectSeq(issues, LAMBDA issue : IsUnseen(history, issue))

(* the hide_seen step of run_analysis: the issues whose key is the key of   *)
(* an unseen dict, in the order of the search                               *)
HideSeen(history, issues) ==
    LET issue_dicts == [n \in 1..Len(issues) |->
                           [repo_name |-> issues[n].repo_name, issue_id |-> issues[n].id]]
        unseen_dicts == filter_unseen(history, issue_dicts)
        unseen_keys == {_make_key(unseen_dicts[n].repo_name, unseen_dicts[n].issue_id) :
                           n \in 1..Len(unseen_dicts)}
    IN  SelectSeq(issues, LAMBDA i : _make_key(i.repo_name, i.id) \in unseen_keys)

(* list[:n] *)
Take(list, n) == SubSeq(list, 1, Min(Len(list), n))

RunIdle ==
    [pc |-> "idle", outcome |-> "", message |-> "", hide_seen |-> FALSE,
     use_cache |-> FALSE, credential |-> "present", searched |-> FALSE, found |-> <<>>,
     passed |-> <<>>, analyzed |-> <<>>, ranked |-> <<>>, presented |-> <<>>,
     exported |-> None, track_history |-> FALSE, recorded |-> <<>>]

RunsIdle ==
    /\ history_file = NoHistory
    /\ run = RunIdle
    /\ runs = 0
    /\ tracked = {}

NoSuccess_Never(analyzed) == FALSE

(* `if not analyzed:` *)
NoSuccess(analyzed) == analyzed = <<>>

(* run_analysis up to the analyze_batch call.  credential tells whether     *)
(* ANTHROPIC_API_KEY is set; the source passes no key to ChatAnthropic and   *)
(* checks none itself, so what a missing key does is the library's choice:   *)
(* strict, the constructor raises and the run ends there; otherwise the      *)
(* analyzer is built and every chain.invoke raises                           *)
RunStart(found, hide_seen, use_cache, credential, strict) ==
    LET history == history_file
        issues == IF hide_seen THEN HideSeen(history, found) ELSE found
        issues_to_analyze == Take(issues, ISSUES_TO_ANALYZE)
        base == [RunIdle EXCEPT !.hide_seen = hide_seen, !.use_cache = use_cache,
                                !.credential = credential]
    IN  /\ run.pc # "batch"
        /\ runs < MaxRuns
        /\ runs' = runs + 1
        /\ has_cache' = use_cache
        /\ stats' = InitStats
        /\ gets' = [github |-> 0, llm |-> 0]
        /\ llm_calls' = 0
        /\ events' = <<>>
        /\ last' = [op |-> "init", ns |-> "", key |-> "", result |-> None]
        /\ served' = NotServed
        /\ IF credential = "missing" /\ strict
           THEN /\ run' = [base EXCEPT !.pc = "done", !.outcome = "raised"]
                /\ batch' = BatchIdle
           ELSE IF found = <<>>
           THEN /\ run' = [base EXCEPT
                             !.pc = "done", !.outcome = "no_issues", !.searched = TRUE,
                             !.message = "No issues found matching your criteria. "
                                         \o "Try broadening your search."]
                /\ batch' = BatchIdle
           ELSE IF issues = <<>>
           THEN /\ run' = [base EXCEPT
                             !.pc = "done", !.outcome = "all_seen", !.searched = TRUE,
                             !.found = found,
                             !.message = "All matching issues have been seen before. "
                                         \o "Use --no-hide-seen to show them."]
                /\ batch' = BatchIdle
           ELSE /\ run' = [base EXCEPT !.pc = "batch", !.searched = TRUE, !.found = found,
                                       !.passed = issues_to_analyze]
                /\ batch' = [pc |-> "progress", issues |-> issues_to_analyze,
                             user_skill |-> "beginner", user_time |-> "half_day",
                             has_callback |-> TRUE, i |-> 0, results |-> <<>>]
        /\ UNCHANGED <<now, ticks, ops, github_cache, llm_cache, sets, clearedAll,
                       origin, prompts, history_file, tracked>>

(* the steps of the analyze_batch call of the run; presenter.show_progress  *)
(* prints and returns                                                       *)
RunProgress ==
    /\ run.pc = "batch"
    /\ BatchProgress(FALSE)
    /\ UNCHANGED <<history_file, run, runs, tracked>>

RunAnalyze(out) ==
    /\ run.pc = "batch"
    /\ run.credential = "missing" => out = Raised
    /\ BatchAnalyze(out)
    /\ UNCHANGED <<has_cache, history_file, run, runs, tracked>>

(* run_analysis from the return of analyze_batch on: the failure report, or *)
(* ranking, presentation, export and the history records.  show_more is the *)
(* user's answer when more than max_results issues were ranked              *)
RunFinish(track_history, max_results, export_path, show_more) ==
    /\ run.pc = "batch"
    /\ batch.pc = "returned"
    /\ IF NoSuccess(batch.results)
       THEN /\ run' = [run EXCEPT
                         !.pc = "done", !.outcome = "failed",
                         !.message = "Failed to analyze issues. "
                                     \o "Check your API key and try again."]
            /\ UNCHANGED <<history_file, tracked>>
       ELSE \E ranked \in {rank_issues(batch.results, batch.user_skill, batch.user_time)} :
            LET top_results == Take(ranked, max_results)
                more == IF Len(ranked) > max_results /\ show_more
                        THEN SubSeq(ranked, max_results + 1,
                                    Min(Len(ranked), max_results + 5))
                        ELSE <<>>
                keys == [n \in 1..Len(ranked) |->
                            _make_key(ranked[n].item.issue.repo_name,
                                      ranked[n].item.issue.id)]
            IN  /\ run' = [run EXCEPT
                             !.pc = "done", !.outcome = "success",
                             !.message = "Successfully analyzed "
                                         \o ToString(Len(batch.results)) \o " issues",
                             !.analyzed = batch.results,
                             !.ranked = ranked,
                             !.presented = top_results \o more,
                             !.exported = IF export_path # None THEN [list |-> ranked]
                                          ELSE None,
                             !.track_history = track_history,
                             !.recorded = IF track_history THEN keys ELSE <<>>]
                /\ history_file' = IF track_history
                                   THEN RecordRanked(history_file, ranked)
                                   ELSE history_file
                /\ tracked' = IF track_history
                              THEN tracked \cup {keys[n] : n \in 1..Len(keys)}
                              ELSE tracked
    /\ UNCHANGED <<cacheVars, analyzerVars, batchVars, runs>>

(* the history commands of the CLI, between runs *)
clear_history ==
    /\ run.pc # "batch"
    /\ history_file # NoHistory
    /\ history_file' = NoHistory
    /\ tracked' = {}
    /\ UNCHANGED <<run, runs>>

remove_entry(repo_name, issue_id) ==
    /\ run.pc # "batch"
    /\ _make_key(repo_name, issue_id) \in DOMAIN history_file
    /\ history_file' = [k \in DOMAIN history_file \ {_make_key(repo_name, issue_id)} |->
                           history_file[k]]
    /\ tracked' = tracked \ {_make_key(repo_name, issue_id)}
    /\ UNCHANGED <<run, runs>>

(* the runs made: what the search finds, the options, what the assessment   *)
(* returns                                                                  *)
RunSearches == {<<>>, <<Issue1, Issue2>>, <<Issue3, Issue1Edited, Issue2>>}
RunOutcomes == {Raised, RespGood}
RunMaxResults == {1, 5}
RunExportPaths == {None, [path |-> "out.json"]}
Credentials == {"present", "missing"}

----------------------------------------------------------------------------
(* Specifications *)

(* the CacheManager API, called directly *)
CacheOnly == UNCHANGED <<analyzerVars, batchVars, keyVars, scorerVars, labelVars, runVars>>

SpecCacheNext ==
    \/ \E d \in TickSteps : Tick(d) /\ CacheOnly
    \/ \E t \in Topics, l \in Languages, d \in Difficulties :
          get_github_search(t, l, d) /\ CacheOnly
    \/ \E t \in Topics, l \in Languages, d \in Difficulties, v \in IssueLists :
          set_github_search(t, l, d, v) /\ CacheOnly
    \/ \E i \in {Issue1, Issue2} :
          /\ set_llm_analysis(i.id, i.repo_name, i.updated_at, "beginner", "half_day",
                            model_dump(IssueAnalysis(RespGood)))
          /\ CacheOnly
    \/ \E i \in {Issue1, Issue2} :
          get_llm_analysis(i.id, i.repo_name, i.updated_at, "beginner", "half_day") /\ CacheOnly
    \/ clear_all /\ CacheOnly
    \/ clear_github /\ CacheOnly
    \/ clear_llm /\ CacheOnly

SpecCacheInit ==
    /\ CacheInit
    /\ AnalyzerInit(TRUE)
    /\ BatchInit
    /\ keyrun = KeyIdle
    /\ ScorerIdle
    /\ LabelsIdle
    /\ RunsIdle

SpecCache == SpecCacheInit /\ [][SpecCacheNext]_vars

(* analyze_issue calls on one analyzer, with the clock and the clears *)
SpecInit ==
    /\ CacheInit
    /\ \E c \in BOOLEAN : AnalyzerInit(c)
    /\ BatchInit
    /\ keyrun = KeyIdle
    /\ ScorerIdle
    /\ LabelsIdle
    /\ RunsIdle

AnalyzerTick == \E d \in {1, LlmTtlSeconds - 1} : Tick(d)

AnalyzerClear ==
    /\ has_cache
    /\ clear_llm \/ clear_all
    /\ served' = NotServed
    /\ UNCHANGED <<has_cache, llm_calls, origin, prompts>>

Next ==
    \/ AnalyzerTick /\ UNCHANGED <<analyzerVars, batchVars, keyVars, scorerVars, labelVars, runVars>>
    \/ AnalyzerClear /\ UNCHANGED <<batchVars, keyVars, scorerVars, labelVars, runVars>>
    \/ \E r \in Requests, out \in Outcomes :
          /\ analyze_issue(r.issue, r.user_skill, r.user_time, out)
          /\ UNCHANGED <<has_cache, batchVars, keyVars, scorerVars, labelVars, runVars>>

Spec == SpecInit /\ [][Next]_vars

(* one analyze_batch call *)
SpecBatchNext ==
    \/ \E issues \in BatchInputs, p \in BatchPrefs, cb \in BOOLEAN :
          BatchStart(issues, p[1], p[2], cb) /\ UNCHANGED <<keyVars, scorerVars, labelVars, runVars>>
    \/ \E raises \in BOOLEAN : BatchProgress(raises) /\ UNCHANGED <<keyVars, scorerVars, labelVars, runVars>>
    \/ \E out \in Outcomes : BatchAnalyze(out) /\ UNCHANGED <<has_cache, keyVars, scorerVars, labelVars, runVars>>

SpecBatch == SpecInit /\ [][SpecBatchNext]_vars

(* _make_llm_key on two argument tuples *)
SpecKeyInit ==
    /\ CacheInit
    /\ AnalyzerInit(TRUE)
    /\ BatchInit
    /\ KeyInit
    /\ ScorerIdle
    /\ LabelsIdle
    /\ RunsIdle

SpecKeyNext == MakeKeys /\ UNCHANGED <<cacheVars, analyzerVars, batchVars, scorerVars, labelVars, runVars>>

SpecKey == SpecKeyInit /\ [][SpecKeyNext]_vars

(* the scorer's functions, each called once on inputs drawn at the start *)
ScorerOnly == UNCHANGED <<cacheVars, analyzerVars, batchVars, keyVars, labelVars, runVars>>

OtherIdle ==
    /\ LabelsIdle
    /\ RunsIdle
    /\ CacheInit
    /\ AnalyzerInit(TRUE)
    /\ BatchInit
    /\ keyrun = KeyIdle

SpecMatchInit ==
    /\ OtherIdle
    /\ MatchInit
    /\ scorerun = ScoreIdle
    /\ rankrun = RankIdle

SpecMatchNext ==
    \/ CalcDifficulty /\ ScorerOnly /\ UNCHANGED <<scorerun, rankrun>>
    \/ CalcTime /\ ScorerOnly /\ UNCHANGED <<scorerun, rankrun>>

SpecMatch == SpecMatchInit /\ [][SpecMatchNext]_vars

SpecScoreInit ==
    /\ OtherIdle
    /\ matchrun = MatchIdle
    /\ ScoreInit
    /\ rankrun = RankIdle

SpecScoreNext == ScoreIssue /\ ScorerOnly /\ UNCHANGED <<matchrun, rankrun>>

SpecScore == SpecScoreInit /\ [][SpecScoreNext]_vars

SpecRankInit ==
    /\ OtherIdle
    /\ matchrun = MatchIdle
    /\ scorerun = ScoreIdle
    /\ RankInit

SpecRankNext == RankIssues /\ ScorerOnly /\ UNCHANGED <<matchrun, scorerun>>

SpecRank == SpecRankInit /\ [][SpecRankNext]_vars

(* the LabelMappingManager API, called directly *)
LabelsOnly == UNCHANGED <<cacheVars, analyzerVars, batchVars, keyVars, scorerVars, runVars>>

SpecLabelsNext ==
    \/ \E r \in LabelRepos, a \in SetMappingArgs :
          /\ set_mapping(r, a.beginner_labels, a.intermediate_labels, a.advanced_labels,
                         a.notes)
          /\ LabelsOnly
    \/ \E r \in LabelRepos, d \in LabelDifficulties, l \in LabelNames :
          add_label(r, d, l) /\ LabelsOnly
    \/ \E r \in LabelRepos, d \in LabelDifficulties, l \in LabelNames :
          remove_label(r, d, l) /\ LabelsOnly
    \/ \E r \in LabelRepos : remove_mapping(r) /\ LabelsOnly
    \/ \E r \in LabelRepos : import_builtin(r) /\ LabelsOnly
    \/ \E r \in LabelRepos : GetMapping(r) /\ LabelsOnly
    \/ NewProcess /\ LabelsOnly

SpecLabelsInit ==
    /\ OtherIdle
    /\ ScorerIdle

SpecLabels == SpecLabelsInit /\ [][SpecLabelsNext]_vars

(* analyze_issue calls on an analyzer whose label mapper changes between  *)
(* them, on issues that are edited without a change of updated_at          *)
RustIssue == [id |-> 7, repo_name |-> "rust-lang/rust", title |-> "t7", updated_at |-> 1,
              body |-> "b7", labels |-> <<"E-easy">>]
RustIssueRelabeled == [RustIssue EXCEPT !.labels = <<"E-hard">>]
RustIssueRewritten == [RustIssue EXCEPT !.title = "t7 again", !.body = ""]
HintRequests == {Request(i, "beginner", "half_day") :
                    i \in {RustIssue, RustIssueRelabeled, RustIssueRewritten}}

HintOnly == UNCHANGED <<cacheVars, analyzerVars, batchVars, keyVars, scorerVars, runVars>>

SpecHintNext ==
    \/ \E r \in HintRequests, out \in Outcomes :
          /\ analyze_issue(r.issue, r.user_skill, r.user_time, out)
          /\ UNCHANGED <<has_cache, batchVars, keyVars, scorerVars, labelVars, runVars>>
    \/ \E l \in LabelNames : add_label("rust-lang/rust", "advanced", l) /\ HintOnly
    \/ remove_mapping("rust-lang/rust") /\ HintOnly
    \/ import_builtin("rust-lang/rust") /\ HintOnly

SpecHint == SpecCacheInit /\ [][SpecHintNext]_vars

(* runs of run_analysis, one after the other, and the history commands *)
RunOnly == UNCHANGED <<keyVars, scorerVars, labelVars>>

SpecRunNext ==
    \/ \E found \in RunSearches, hide_seen \in BOOLEAN, use_cache \in BOOLEAN,
          credential \in Credentials, strict \in BOOLEAN :
          RunStart(found, hide_seen, use_cache, credential, strict) /\ RunOnly
    \/ RunProgress /\ RunOnly
    \/ \E out \in RunOutcomes : RunAnalyze(out) /\ RunOnly
    \/ \E track_history \in BOOLEAN, max_results \in RunMaxResults,
          export_path \in RunExportPaths, show_more \in BOOLEAN :
          RunFinish(track_history, max_results, export_path, show_more) /\ RunOnly
    \/ clear_history /\ UNCHANGED <<cacheVars, analyzerVars, batchVars>> /\ RunOnly
    \/ \E i \in {Issue1, Issue2, Issue3} :
          /\ remove_entry(i.repo_name, i.id)
          /\ UNCHANGED <<cacheVars, analyzerVars, batchVars>>
          /\ RunOnly

SpecRun == SpecCacheInit /\ [][SpecRunNext]_vars

----------------------------------------------------------------------------
(* Steps and history the properties speak of *)

(* this step is one analyze_issue call (last' tells what it returned) *)
AnalyzeStep == ops' # ops /\ last'.op = "analyze"

(* this step is one get_github_search or get_llm_analysis call *)
GetStep == gets' # gets /\ last'.op = "get"

CacheOf(ns) == IF ns = "github" THEN github_cache ELSE llm_cache
TtlOf(ns) == IF ns = "github" THEN GITHUB_CACHE_TTL_MINUTES * 60 ELSE LLM_CACHE_TTL_HOURS * 3600
HitsOf(st, ns) == IF ns = "github" THEN st.github_hits ELSE st.llm_hits
MissesOf(st, ns) == IF ns = "github" THEN st.github_misses ELSE st.llm_misses
OtherNs(ns) == IF ns = "github" THEN "llm" ELSE "github"

(* the key has been set since its namespace was last cleared, and the    *)
(* latest of these sets is less than one TTL old                          *)
Live(ns, key) == key \in DOMAIN sets[ns] /\ now < sets[ns][key].time + TtlOf(ns)

DoneEvents == SelectSeq(events, LAMBDA e : e.type = "done")
OkEvents == SelectSeq(events, LAMBDA e : e.type = "done" /\ e.ok)
ProgressEvents == SelectSeq(events, LAMBDA e : e.type = "progress")

----------------------------------------------------------------------------
(* C1: once analyze_issue has returned an analysis for a request tuple,  *)
(* every later analyze_issue with the same tuple, made before the row    *)
(* that served or stored it expires and with no cache clear in between,  *)
(* returns an analysis with the same fields and calls the assessment     *)
(* function zero times.                                                   *)
C1_CachedAnalysisReused ==
    [][(AnalyzeStep /\ has_cache) =>
          LET r == last'.req
          IN  (r \in DOMAIN served /\ now < served[r].until) =>
                 /\ last'.result = served[r].analysis
                 /\ llm_calls' = llm_calls]_vars

C1_Witness ==
    /\ last.op = "analyze"
    /\ last.hit
    /\ ops = 2
    /\ llm_calls = 1
    /\ now = LLM_CACHE_TTL_HOURS * 3600 - 1
    /\ last.result = IssueAnalysis(RespOdd)

(* C2: a hit of analyze_issue returns only an analysis that was stored   *)
(* for the same request tuple (issue with its updated_at, user_skill,    *)
(* user_time).                                                            *)
C2_HitOnlyForSameTuple ==
    (last.op = "analyze" /\ last.hit) => origin[last.key] = last.req

(* C3 as stated: a get of an expired or never set key returns a miss and *)
(* the stale row is gone from the store after it; a get before expiry    *)
(* returns the stored value.                                              *)
C3_ExpiredEntryEvicted ==
    [][GetStep =>
          LET ns == last'.ns
              key == last'.key
          IN  IF Live(ns, key)
              THEN last'.result = sets[ns][key].value
              ELSE /\ last'.result = None
                   /\ key \notin DOMAIN (IF ns = "github" THEN github_cache'
                                                            ELSE llm_cache')]_vars

(* C3, amended: a get of an expired key does what a get of a never set   *)
(* key does, it returns a miss and counts one miss, and a get before     *)
(* expiry returns the stored value; no get changes the store, so the     *)
(* stale row is ignored, not removed.                                     *)
C3_ExpiredEntryIsMiss ==
    [][GetStep =>
          LET ns == last'.ns
              key == last'.key
          IN  /\ IF Live(ns, key)
                 THEN last'.result = sets[ns][key].value
                 ELSE /\ last'.result = None
                      /\ MissesOf(stats', ns) = MissesOf(stats, ns) + 1
              /\ github_cache' = github_cache
              /\ llm_cache' = llm_cache]_vars

C3_Witness ==
    /\ last.op = "get"
    /\ last.ns = "llm"
    /\ last.result = None
    /\ last.key \in DOMAIN llm_cache
    /\ now = llm_cache[last.key].expire_time
    /\ stats.llm_misses = 1

(* C4: _make_llm_key gives equal keys exactly for equal argument tuples. *)
C4_KeyInjective ==
    keyrun.done => ((keyrun.ka = keyrun.kb) <=> (keyrun.a = keyrun.b))

(* C5: an analyze_issue call that does not hit the cache calls the       *)
(* assessment function exactly once; if it succeeds and a cache is       *)
(* attached, the result is stored under the key that was looked up,      *)
(* expiring 24 hours later, and a lookup of the same tuple at once       *)
(* finds it.                                                              *)
C5_MissCallsOnceAndStores ==
    [][(AnalyzeStep /\ ~last'.hit) =>
          /\ llm_calls' = llm_calls + 1
          /\ (has_cache /\ last'.result # Raised) =>
                /\ last'.key \in DOMAIN llm_cache'
                /\ llm_cache'[last'.key].expire_time = now + LLM_CACHE_TTL_HOURS * 3600
                /\ IssueAnalysis(DiskGet(llm_cache', RequestKey(last'.req), now'))
                      = last'.result
          /\ ~has_cache => llm_cache' = llm_cache]_vars

C5_Witness ==
    /\ last.op = "analyze"
    /\ has_cache
    /\ ~last.hit
    /\ last.result = IssueAnalysis(RespGood)
    /\ last.key \in DOMAIN llm_cache
    /\ llm_cache[last.key].expire_time = now + LLM_CACHE_TTL_HOURS * 3600
    /\ now > 0

(* C6: a failure on one issue never aborts analyze_batch: the call does   *)
(* not raise, and when it returns every issue of the input has been      *)
(* attempted once, in order, whatever happened to the earlier ones, and  *)
(* the results are as many as the attempts that succeeded.               *)
C6_BatchNeverAborts ==
    /\ batch.pc # "raised"
    /\ batch.pc = "returned" =>
          /\ Len(DoneEvents) = Len(batch.issues)
          /\ \A j \in 1..Len(DoneEvents) : DoneEvents[j].i = j - 1
          /\ Len(batch.results) = Len(OkEvents)
          /\ \A j \in 1..Len(batch.results) :
                batch.results[j][1] = batch.issues[OkEvents[j].i + 1]

C6_Witness ==
    /\ batch.pc = "returned"
    /\ Len(batch.issues) = 3
    /\ ~DoneEvents[1].ok
    /\ ~DoneEvents[2].ok
    /\ DoneEvents[3].ok
    /\ Len(batch.results) = 1

(* C7: the results of analyze_batch are the input issues that succeeded, *)
(* in input order, one per input occurrence, each with the analysis      *)
(* analyze_issue returned for it.                                         *)
C7_BatchPreservesOrder ==
    /\ \A j, k \in 1..Len(OkEvents) : j < k => OkEvents[j].i < OkEvents[k].i
    /\ batch.results =
          [j \in 1..Len(OkEvents) |->
              <<batch.issues[OkEvents[j].i + 1], OkEvents[j].analysis>>]

C7_Witness ==
    /\ batch.pc = "returned"
    /\ batch.issues = <<Issue2, Issue1, Issue1Edited>>
    /\ batch.results = <<<<Issue2, IssueAnalysis(RespOdd)>>,
                         <<Issue1Edited, IssueAnalysis(RespGood)>>>>

(* C8: with a callback, analyze_batch calls it once per input issue, in  *)
(* input order, with (1-based position, number of input issues, title);  *)
(* the call for an issue comes before the analysis of that issue and     *)
(* after the attempt on the previous issue has ended.                    *)
C8_ProgressOncePerIssueInOrder ==
    /\ ~batch.has_callback => Len(ProgressEvents) = 0
    /\ batch.has_callback =>
          /\ batch.pc = "returned" => Len(ProgressEvents) = Len(batch.issues)
          /\ \A j \in 1..Len(ProgressEvents) :
                /\ ProgressEvents[j].i = j - 1
                /\ ProgressEvents[j].args = <<j, Len(batch.issues), batch.issues[j].title>>
          /\ \A p \in 1..Len(events) :
                events[p].type = "progress" =>
                   /\ \A q \in 1..Len(events) :
                         (events[q].i = events[p].i /\ events[q].type # "progress")
                            => p < q
                   /\ \A q \in 1..Len(events) : events[q].i < events[p].i => q < p
                   /\ events[p].i > 0 =>
                         \E q \in 1..(p - 1) :
                            events[q].type = "done" /\ events[q].i = events[p].i - 1
          /\ \A p \in 1..Len(events) :
                events[p].type = "analyze" =>
                   \E q \in 1..(p - 1) :
                      events[q].type = "progress" /\ events[q].i = events[p].i

C8_Witness ==
    /\ batch.pc = "returned"
    /\ batch.has_callback
    /\ Len(batch.issues) = 3
    /\ Len(ProgressEvents) = 3
    /\ ProgressEvents[3].args = <<3, 3, "t2">>
    /\ ~DoneEvents[1].ok
    /\ Len(batch.results) = 2

(* C9: every cache get adds one to exactly one of the hit and the miss   *)
(* counter of its namespace, the hit counter if it returns a value and   *)
(* the miss counter otherwise, and changes no counter of the other       *)
(* namespace; as long as clear_all has not been called, hits + misses of *)
(* a namespace is the number of gets made on it.                          *)
C9_GetCountsHitOrMiss ==
    /\ [](~clearedAll =>
             \A ns \in {"github", "llm"} : HitsOf(stats, ns) + MissesOf(stats, ns) = gets[ns])
    /\ [][GetStep =>
             LET ns == last'.ns
                 hit == IF last'.result # None THEN 1 ELSE 0
             IN  /\ HitsOf(stats', ns) = HitsOf(stats, ns) + hit
                 /\ MissesOf(stats', ns) = MissesOf(stats, ns) + (1 - hit)
                 /\ hit = 1 <=> Live(ns, last'.key)
                 /\ HitsOf(stats', OtherNs(ns)) = HitsOf(stats, OtherNs(ns))
                 /\ MissesOf(stats', OtherNs(ns)) = MissesOf(stats, OtherNs(ns))]_vars

C9_Witness ==
    /\ ~clearedAll
    /\ stats = [github_hits |-> 1, github_misses |-> 0, llm_hits |-> 0, llm_misses |-> 1]
    /\ gets = [github |-> 1, llm |-> 1]

(* C10: a set on a key that has a row replaces its value and restarts    *)
(* its TTL: a get of a key set more than once returns the value of the   *)
(* latest set, and does so exactly until one TTL after the latest set.   *)
C10_SetRestartsTtl ==
    [][GetStep =>
          LET ns == last'.ns
              key == last'.key
          IN  (key \in DOMAIN sets[ns] /\ sets[ns][key].first < sets[ns][key].time) =>
                 last'.result = IF now < sets[ns][key].time + TtlOf(ns)
                                THEN sets[ns][key].value
                                ELSE None]_vars

C10_Witness ==
    /\ last.op = "get"
    /\ last.ns = "github"
    /\ last.key \in DOMAIN sets.github
    /\ sets.github[last.key].first + GITHUB_CACHE_TTL_MINUTES * 60 <= now
    /\ now < sets.github[last.key].time + GITHUB_CACHE_TTL_MINUTES * 60
    /\ last.result = [list |-> <<[id |-> 1]>>]

(* C11: the two namespaces are separate stores.  A get, set or clear of   *)
(* one namespace leaves every row of the other unchanged, so a get of    *)
(* any key string in the other returns what it returned before; and      *)
(* what a get returns in a namespace, before and after rows expire, is   *)
(* decided by the sets and clears of that namespace alone: a key string  *)
(* set only in the other namespace is a miss.                             *)
C11_NamespacesIsolated ==
    /\ [](\A ns \in {"github", "llm"} :
             \A k \in DOMAIN github_cache \cup DOMAIN llm_cache :
                DiskGet(CacheOf(ns), k, now) =
                   IF Live(ns, k) THEN sets[ns][k].value ELSE None)
    /\ [][(ops' # ops /\ last'.ns = "github") =>
             /\ llm_cache' = llm_cache
             /\ \A k \in DOMAIN github_cache \cup DOMAIN github_cache' \cup DOMAIN llm_cache :
                   DiskGet(llm_cache', k, now') = DiskGet(llm_cache, k, now)]_vars
    /\ [][(ops' # ops /\ last'.ns = "llm") =>
             /\ github_cache' = github_cache
             /\ \A k \in DOMAIN llm_cache \cup DOMAIN llm_cache' \cup DOMAIN github_cache :
                   DiskGet(github_cache', k, now') = DiskGet(github_cache, k, now)]_vars

C11_Witness ==
    /\ last.op = "clear"
    /\ last.ns = "llm"
    /\ llm_cache = EmptyCache
    /\ ticks > 0
    /\ \E k \in DOMAIN github_cache :
          DiskGet(github_cache, k, now) = [list |-> <<[id |-> 1]>>]

----------------------------------------------------------------------------
(* Steps and values the properties of the scorer speak of *)

DifficultyPos == [beginner |-> 0, intermediate |-> 1, advanced |-> 2]
TimePos == [quick_win |-> 0, half_day |-> 1, full_day |-> 2, weekend |-> 3, deep_dive |-> 4]

(* the ordinal distance of two labels, compared without regard to case *)
Distance(pos, x, y) == Abs(pos[Lower(x)] - pos[Lower(y)])
KnownPair(pos, x, y) == Lower(x) \in DOMAIN pos /\ Lower(y) \in DOMAIN pos

ConfidenceLevel == [low |-> 0, medium |-> 1, high |-> 2]

Components == scorerun.scored.score_components
ComponentConfidences == [i \in 1..Len(Components) |-> Lower(Components[i].confidence)]

(* C12: rank_issues returns the scored issues of its input, each once,    *)
(* none lost and none added, in non-increasing order of total score, and *)
(* two issues with equal total score in the order they had in the input. *)
C12_RankIsStableDescending ==
    rankrun.done =>
       LET input == rankrun.analyzed_issues
           out == rankrun.ranked
           n == Len(input)
       IN  /\ Len(out) = n
           /\ \A i \in 1..n : \E j \in 1..n : out[j].pos = i
           /\ \A j \in 1..n :
                 /\ out[j].item.issue = input[out[j].pos][1]
                 /\ out[j].item.analysis = input[out[j].pos][2]
           /\ \A j, k \in 1..n : j < k => out[j].item.score >= out[k].item.score
           /\ \A j, k \in 1..n :
                 (j < k /\ out[j].item.score = out[k].item.score) => out[j].pos < out[k].pos

C12_Witness ==
    /\ rankrun.done
    /\ rankrun.analyzed_issues =
          <<<<Issue1, IssueAnalysis(RespOdd)>>, <<Issue1, IssueAnalysis(RespGood)>>,
            <<Issue2, IssueAnalysis(RespOdd)>>, <<Issue2, IssueAnalysis(RespHard)>>>>
    /\ [j \in 1..4 |-> rankrun.ranked[j].pos] = <<2, 1, 3, 4>>
    /\ [j \in 1..4 |-> rankrun.ranked[j].item.score] = <<925, 605, 605, 260>>

(* C13: the four weights sum to 1.0, and the total score of score_issue  *)
(* lies in [0, 1] for every analysis, preference pair and repo health,   *)
(* unknown labels and clarity scores outside 1..10 included.             *)
C13_TotalInUnitRange ==
    /\ DIFFICULTY_MATCH_WEIGHT + TIME_MATCH_WEIGHT + REPO_HEALTH_WEIGHT
          + ISSUE_CLARITY_WEIGHT = 1000
    /\ scorerun.done => (0 <= scorerun.scored.score /\ scorerun.scored.score <= 1000)

C13_Witness ==
    /\ scorerun.done
    /\ scorerun.analysis.fields.difficulty = "expert"
    /\ scorerun.analysis.fields.estimated_time = "month"
    /\ scorerun.analysis.fields.clarity_score = 11
    /\ scorerun.repo_health # None
    /\ scorerun.scored.score = 650

(* C14: score_issue produces four components, in the order difficulty,   *)
(* time, repo health, clarity, each with its configured weight and with  *)
(* weighted_score = score x weight, and the total is the sum of the four *)
(* weighted scores.                                                       *)
C14_FourWeightedComponents ==
    scorerun.done =>
       LET s == scorerun.scored
           c == s.score_components
       IN  /\ Len(c) = 4
           /\ [i \in 1..4 |-> c[i].name] =
                 <<"Difficulty Match", "Time Match", "Repo Health", "Issue Clarity">>
           /\ [i \in 1..4 |-> c[i].weight] =
                 <<DIFFICULTY_MATCH_WEIGHT, TIME_MATCH_WEIGHT, REPO_HEALTH_WEIGHT,
                   ISSUE_CLARITY_WEIGHT>>
           /\ [i \in 1..4 |-> c[i].score] =
                 <<s.score_breakdown.difficulty, s.score_breakdown.time,
                   s.score_breakdown.health, s.score_breakdown.clarity>>
           /\ \A i \in 1..4 : c[i].weighted_score * 1000 = c[i].score * c[i].weight
           /\ s.score = c[1].weighted_score + c[2].weighted_score
                          + c[3].weighted_score + c[4].weighted_score

C14_Witness ==
    /\ scorerun.done
    /\ scorerun.analysis.fields.difficulty = "beginner"
    /\ scorerun.analysis.fields.estimated_time = "half_day"
    /\ scorerun.analysis.fields.clarity_score = 8
    /\ scorerun.user_skill = "beginner"
    /\ scorerun.user_time = "half_day"
    /\ scorerun.repo_health = None
    /\ [i \in 1..4 |-> Components[i].weighted_score] = <<400, 300, 105, 120>>
    /\ scorerun.scored.score = 925

(* C15: the overall confidence is low if any of the four component       *)
(* confidences is low, else high if all four are high, else medium       *)
(* (levels compared without regard to case); it is never higher than     *)
(* the level of any component.                                            *)
C15_OverallConfidenceRollup ==
    scorerun.done =>
       LET cs == ComponentConfidences
           overall == scorerun.scored.overall_confidence
       IN  /\ Len(cs) = 4
           /\ overall = IF \E i \in 1..4 : cs[i] = "low" THEN "low"
                         ELSE IF \A i \in 1..4 : cs[i] = "high" THEN "high"
                         ELSE "medium"
           /\ \A i \in 1..4 :
                 cs[i] \in DOMAIN ConfidenceLevel =>
                    ConfidenceLevel[overall] <= ConfidenceLevel[cs[i]]

C15_Witness ==
    /\ scorerun.done
    /\ [i \in 1..4 |-> Components[i].confidence] = <<"high", "medium", "high", "high">>
    /\ scorerun.scored.overall_confidence = "medium"

(* C16: calculate_difficulty_score is 1.0, 0.6, 0.2 at ordinal distance  *)
(* 0, 1, 2 of its two labels in beginner < intermediate < advanced       *)
(* (compared without regard to case) and depends on the distance alone;  *)
(* it is symmetric; and it returns 0.5, and does not raise, when a label *)
(* is none of the three.                                                  *)
C16_DifficultyScoreByDistance ==
    (matchrun.done /\ matchrun.fn = "difficulty") =>
       LET a == matchrun.actual
           p == matchrun.preferred
           o == matchrun.other
       IN  /\ matchrun.score \in {1000, 600, 200, 500}
           /\ matchrun.score = matchrun.swapped
           /\ IF KnownPair(DifficultyPos, a, p)
              THEN /\ Distance(DifficultyPos, a, p) = 0 => matchrun.score = 1000
                   /\ Distance(DifficultyPos, a, p) = 1 => matchrun.score = 600
                   /\ Distance(DifficultyPos, a, p) = 2 => matchrun.score = 200
                   /\ (/\ KnownPair(DifficultyPos, o, p)
                       /\ Distance(DifficultyPos, o, p) = Distance(DifficultyPos, a, p))
                         => matchrun.other_score = matchrun.score
              ELSE matchrun.score = 500

C16_Witness ==
    /\ matchrun.done
    /\ matchrun.fn = "difficulty"
    /\ matchrun.actual = "beginner"
    /\ matchrun.preferred = "advanced"
    /\ matchrun.other = "expert"
    /\ matchrun.score = 200
    /\ matchrun.swapped = 200
    /\ matchrun.other_score = 500

(* C17: calculate_time_score is 1.0, 0.7, 0.4, 0.1, 0.1 at ordinal       *)
(* distance 0, 1, 2, 3, 4 of its two labels in quick_win < half_day <    *)
(* full_day < weekend < deep_dive (compared without regard to case) and  *)
(* depends on the distance alone; a larger distance never gives a larger *)
(* score; and it returns 0.5, and does not raise, when a label is none   *)
(* of the five.                                                           *)
C17_TimeScoreByDistance ==
    (matchrun.done /\ matchrun.fn = "time") =>
       LET a == matchrun.actual
           p == matchrun.preferred
           o == matchrun.other
       IN  /\ matchrun.score \in {1000, 700, 400, 100, 500}
           /\ IF KnownPair(TimePos, a, p)
              THEN /\ Distance(TimePos, a, p) = 0 => matchrun.score = 1000
                   /\ Distance(TimePos, a, p) = 1 => matchrun.score = 700
                   /\ Distance(TimePos, a, p) = 2 => matchrun.score = 400
                   /\ Distance(TimePos, a, p) >= 3 => matchrun.score = 100
                   /\ (/\ KnownPair(TimePos, o, p)
                       /\ Distance(TimePos, o, p) >= Distance(TimePos, a, p))
                         => matchrun.other_score <= matchrun.score
              ELSE matchrun.score = 500

C17_Witness ==
    /\ matchrun.done
    /\ matchrun.fn = "time"
    /\ matchrun.actual = "weekend"
    /\ matchrun.preferred = "quick_win"
    /\ matchrun.other = "deep_dive"
    /\ matchrun.score = 100
    /\ matchrun.other_score = 100

(* C18: the repo health component of score_issue has score 0.7 and       *)
(* confidence low when no health data is given; with health data its     *)
(* score is 0.5 if the repository is healthy, plus 0.3 if it has a       *)
(* contribution guide, plus 0.2 if it was updated less than 30 days ago, *)
(* kept within [0, 1], and its confidence is high.                        *)
C18_HealthComponent ==
    scorerun.done =>
       LET h == scorerun.repo_health
           c == Components[3]
       IN  IF h = None
           THEN c.score = 700 /\ c.confidence = "low"
           ELSE /\ c.score = Max(0, Min(1000,
                                 (IF h.is_healthy THEN 500 ELSE 0)
                                 + (IF h.has_contributing_guide THEN 300 ELSE 0)
                                 + (IF h.days_since_update < 30 THEN 200 ELSE 0)))
                /\ c.confidence = "high"

C18_Witness ==
    /\ scorerun.done
    /\ scorerun.repo_health # None
    /\ scorerun.repo_health.is_healthy
    /\ ~scorerun.repo_health.has_contributing_guide
    /\ scorerun.repo_health.days_since_update = 29
    /\ Components[3].score = 700
    /\ Components[3].confidence = "high"

(* C19: the clarity component's score is clarity_score / 10 with         *)
(* clarity_score first brought into 0..10 (0.0 below 0, 1.0 above 10),   *)
(* for every integer clarity_score, and its confidence is high whatever  *)
(* the analysis says.                                                     *)
C19_ClarityComponent ==
    scorerun.done =>
       LET x == scorerun.analysis.fields.clarity_score
           c == Components[4]
       IN  /\ c.score = IF x < 0 THEN 0 ELSE IF x > 10 THEN 1000 ELSE x * 100
           /\ c.confidence = "high"

C19_Witness ==
    /\ scorerun.done
    /\ scorerun.analysis.fields.clarity_score = 0 - 1
    /\ scorerun.analysis.fields.difficulty_confidence = "low"
    /\ scorerun.analysis.fields.time_confidence = "LOW"
    /\ Components[4].score = 0
    /\ Components[4].confidence = "high"

(* the values of an analysis dict are within the domains IssueAnalysis   *)
(* describes for its fields                                              *)
InDomain(d) ==
    /\ RequiredFields \subseteq DOMAIN d
    /\ d.difficulty \in {"beginner", "intermediate", "advanced"}
    /\ d.estimated_time \in {"quick_win", "half_day", "full_day", "weekend", "deep_dive"}
    /\ d.clarity_score \in 1..10

(* C20: a response of the assessment function that lacks a required      *)
(* field, or whose difficulty, estimated_time or clarity_score is        *)
(* outside its domain, is rejected: no analysis with such a value is     *)
(* returned by analyze_issue, kept in the results of analyze_batch or    *)
(* stored in the cache.                                                   *)
C20_InvalidResponseRejected ==
    /\ \A j \in 1..Len(OkEvents) : InDomain(model_dump(OkEvents[j].analysis))
    /\ \A j \in 1..Len(batch.results) : InDomain(model_dump(batch.results[j][2]))
    /\ \A k \in DOMAIN llm_cache : InDomain(llm_cache[k].value)

(* C24: when the assessment call or the parsing of its response raises   *)
(* inside analyze_issue, nothing is written to the cache: apart from the *)
(* miss counter of the lookup the cache is as before, so the tuple is    *)
(* still a miss and the next analyze_issue for it calls the assessment   *)
(* function again; no row of the cache holds a failed result.            *)
C24_FailureWritesNothing ==
    /\ [](\A k \in DOMAIN llm_cache : Validates(llm_cache[k].value))
    /\ [][(AnalyzeStep /\ last'.result = Raised) =>
             /\ ~last'.hit
             /\ llm_calls' = llm_calls + 1
             /\ llm_cache' = llm_cache
             /\ github_cache' = github_cache
             /\ stats' = IF has_cache THEN [stats EXCEPT !.llm_misses = @ + 1] ELSE stats
             /\ DiskGet(llm_cache', last'.key, now') = None]_vars

C24_Witness ==
    /\ last.op = "analyze"
    /\ last.result = Raised
    /\ has_cache
    /\ ops = 2
    /\ llm_calls = 2
    /\ stats.llm_misses = 2
    /\ llm_cache = EmptyCache
    /\ DOMAIN served = {}

(* C25: with a cache attached and no clear_all, the miss counter of the  *)
(* analysis namespace is the number of assessment calls made, and each   *)
(* analyze_issue adds one to the hit counter exactly when it returns its *)
(* analysis from the cache and one to the miss counter exactly when it   *)
(* calls the assessment function.                                        *)
C25_MissesAreAssessmentCalls ==
    /\ []((has_cache /\ ~clearedAll) =>
             /\ stats.llm_misses = llm_calls
             /\ stats.llm_hits = gets.llm - llm_calls)
    /\ [][(AnalyzeStep /\ has_cache) =>
             IF last'.hit
             THEN /\ stats'.llm_hits = stats.llm_hits + 1
                  /\ stats'.llm_misses = stats.llm_misses
                  /\ llm_calls' = llm_calls
                  /\ last'.result # Raised
             ELSE /\ stats'.llm_hits = stats.llm_hits
                  /\ stats'.llm_misses = stats.llm_misses + 1
                  /\ llm_calls' = llm_calls + 1]_vars

C25_Witness ==
    /\ has_cache
    /\ ~clearedAll
    /\ ops = 3
    /\ stats.llm_hits = 1
    /\ stats.llm_misses = 2
    /\ llm_calls = 2
    /\ ticks > 0

(* C26: rank_issues calls score_issue without repo health, so every      *)
(* ScoredIssue it returns has repo health score 0.7 with confidence low  *)
(* and overall confidence low, whatever confidences the analysis holds.  *)
C26_RankedHealthIsDefault ==
    rankrun.done =>
       \A j \in 1..Len(rankrun.ranked) :
          LET s == rankrun.ranked[j].item
          IN  /\ s.score_components[3].name = "Repo Health"
              /\ s.score_components[3].score = 700
              /\ s.score_components[3].confidence = "low"
              /\ s.score_breakdown.health = 700
              /\ s.overall_confidence = "low"

C26_Witness ==
    /\ rankrun.done
    /\ Len(rankrun.ranked) = 2
    /\ rankrun.ranked[1].item.analysis = IssueAnalysis(RespGood)
    /\ rankrun.ranked[1].item.score_components[1].confidence = "high"
    /\ rankrun.ranked[1].item.score_components[2].confidence = "high"
    /\ rankrun.ranked[1].item.overall_confidence = "low"
    /\ rankrun.ranked[2].item.analysis = IssueAnalysis(RespHard)

(* C28: when the progress callback raises for an issue, the issue is     *)
(* skipped like one whose analysis failed: no cache lookup and no        *)
(* assessment call is made for it, the results are as before, and the    *)
(* batch goes on with the next issue, or returns after the last one.     *)
C28_CallbackFailureSkipsIssue ==
    [][(batch.pc = "progress" /\ Len(events') = Len(events) + 2) =>
          /\ events'[Len(events') - 1].type = "progress"
          /\ events'[Len(events')] = [type |-> "done", i |-> batch.i, ok |-> FALSE,
                                       analysis |-> Raised]
          /\ UNCHANGED <<cacheVars, analyzerVars>>
          /\ batch'.results = batch.results
          /\ batch'.i = batch.i + 1
          /\ batch'.pc = IF batch.i + 1 < Len(batch.issues) THEN "progress" ELSE "returned"]_vars

C28_Witness ==
    /\ batch.pc = "returned"
    /\ batch.has_callback
    /\ has_cache
    /\ Len(batch.issues) = 3
    /\ DoneEvents[1].ok
    /\ ~DoneEvents[2].ok
    /\ DoneEvents[3].ok
    /\ Len(SelectSeq(events, LAMBDA e : e.type = "analyze")) = 2
    /\ gets.llm = 2
    /\ Len(batch.results) = 2

(* the mapping the tier below the custom one gives a repository: the       *)
(* built-in entry as it is now for a known repository, the global default  *)
(* for any other                                                           *)
BelowCustom(r) ==
    IF r \in DOMAIN builtin_mappings
    THEN [repo_name |-> r, beginner_labels |-> builtin_mappings[r].beginner,
          intermediate_labels |-> builtin_mappings[r].intermediate,
          advanced_labels |-> builtin_mappings[r].advanced,
          notes |-> builtin_mappings[r].notes]
    ELSE [repo_name |-> r, beginner_labels |-> BEGINNER_LABELS,
          intermediate_labels |-> INTERMEDIATE_LABELS,
          advanced_labels |-> ADVANCED_LABELS, notes |-> "Using default global mappings"]

(* C23: get_mapping follows a three-tier priority: the repository's custom *)
(* mapping if it has one, otherwise the built-in mapping if the repository *)
(* is a known one, otherwise the global default label lists; and a step    *)
(* that removes a repository's custom mapping leaves get_mapping on the    *)
(* next tier: the built-in entry for a known repository, the default for   *)
(* any other                                                               *)
C23_ThreeTierPriority ==
    /\ [](\A r \in LabelRepos :
            get_mapping(r) = IF has_custom_mapping(r)
                             THEN MappingValue(custom_mappings[r], builtin_mappings)
                             ELSE BelowCustom(r))
    /\ [][\A r \in LabelRepos :
            (r \in DOMAIN custom_mappings /\ r \notin DOMAIN custom_mappings') =>
                /\ get_mapping(r)' = BelowCustom(r)'
                /\ r \notin DOMAIN mappings_file'
                /\ (r \in DOMAIN BUILTIN_MAPPINGS =>
                       get_mapping(r)'.notes = BUILTIN_MAPPINGS[r].notes)
                /\ (r \notin DOMAIN BUILTIN_MAPPINGS =>
                       get_mapping(r)' = DefaultMapping(r))]_vars

(* a custom mapping was set on the known repository, shadowing its built-in *)
(* entry, then removed, and a caller got the built-in entry again; the      *)
(* other repository still has a custom mapping                               *)
C23_Witness ==
    /\ label_ops = 3
    /\ DOMAIN custom_mappings = {"o/r"}
    /\ DOMAIN mappings_file = {"o/r"}
    /\ lookup # None
    /\ lookup.repo_name = "rust-lang/rust"
    /\ lookup.mapping.beginner_labels = <<"E-easy", "E-mentor">>
    /\ lookup.mapping.notes = "Rust uses E- prefix for difficulty levels"
    /\ get_mapping("o/r").notes = "mine"

(* C30: the built-in label mappings are never modified: whatever calls of  *)
(* import_builtin, add_label, remove_label and remove_mapping were made,   *)
(* a known repository that has no custom mapping gets from get_mapping     *)
(* exactly the built-in lists as the source writes them                    *)
C30_BuiltinNeverModified ==
    \A r \in DOMAIN BUILTIN_MAPPINGS :
        ~has_custom_mapping(r) =>
            get_mapping(r) = [repo_name |-> r,
                              beginner_labels |-> BUILTIN_MAPPINGS[r].beginner,
                              intermediate_labels |-> BUILTIN_MAPPINGS[r].intermediate,
                              advanced_labels |-> BUILTIN_MAPPINGS[r].advanced,
                              notes |-> BUILTIN_MAPPINGS[r].notes]

(* two requests name the same cache tuple: issue id, repository, updated_at *)
(* and the two preferences                                                  *)
SameTuple(r, q) ==
    /\ r.issue.id = q.issue.id
    /\ r.issue.repo_name = q.issue.repo_name
    /\ r.issue.updated_at = q.issue.updated_at
    /\ r.user_skill = q.user_skill
    /\ r.user_time = q.user_time

(* C27: the label hint, the title, the body and the labels are not part of *)
(* the cache key: an analyze_issue call on a cache-attached analyzer for a  *)
(* tuple of issue id, repository, updated_at and preferences whose analysis *)
(* was returned before and is still live returns that analysis from the     *)
(* cache, builds no prompt and makes no assessment call, whatever custom    *)
(* mapping was added, changed or removed and whatever the issue's title,    *)
(* body and labels have become since                                        *)
C27_HintNotInCacheKey ==
    [][(AnalyzeStep /\ has_cache) =>
          \A r \in DOMAIN served :
              (SameTuple(r, last'.req) /\ now < served[r].until) =>
                  /\ last'.hit
                  /\ last'.result = served[r].analysis
                  /\ last'.prompt = None
                  /\ llm_calls' = llm_calls
                  /\ llm_cache' = llm_cache]_vars

(* the row was assessed for the issue under the built-in mapping, with the *)
(* hint BEGINNER; a custom mapping then made the same label mean advanced,  *)
(* the issue was rewritten, and the call for it was still served the row    *)
C27_Witness ==
    /\ last.op = "analyze"
    /\ last.hit
    /\ llm_calls = 1
    /\ last.req.issue = RustIssueRewritten
    /\ origin[last.key].issue = RustIssue
    /\ prompts[last.key].labels =
         "E-easy\n   [Label hint: Labels suggest BEGINNER difficulty (known repo pattern)]"
    /\ PromptInput(RustIssueRewritten, "beginner", "half_day").labels =
         "E-easy\n   [Label hint: Labels suggest ADVANCED difficulty (custom mapping)]"
    /\ PromptInput(RustIssueRewritten, "beginner", "half_day").title # prompts[last.key].title

(* this step is the part of run_analysis after analyze_batch has returned *)
FinishStep == run.pc = "batch" /\ run'.pc = "done"

(* this step is the part of run_analysis up to the analyze_batch call *)
StartStep == runs' = runs + 1

(* the (issue, analysis) pairs of a ranked list, as a bag would hold them *)
RankedPairs(ranked) == {<<ranked[n].pos, ranked[n].item.issue, ranked[n].item.analysis>> :
                           n \in 1..Len(ranked)}

(* C21: a run whose analyze_batch call returns no successfully analyzed     *)
(* issue is reported as failed and does no scoring, presentation, export or *)
(* history recording; a run whose analyze_batch call returns at least one   *)
(* is reported as a success and ranks, presents, exports and records        *)
(* exactly the successfully analyzed issues; and the failure report is      *)
(* made by no other run                                                     *)
C21_FailedExactlyWhenNoneAnalyzed ==
    /\ []((run.message = "Failed to analyze issues. Check your API key and try again.") =>
             /\ run.outcome = "failed"
             /\ Len(OkEvents) = 0
             /\ Len(DoneEvents) = Len(run.passed))
    /\ [][FinishStep =>
            IF Len(OkEvents) = 0
            THEN /\ run'.outcome = "failed"
                 /\ run'.message = "Failed to analyze issues. Check your API key and try again."
                 /\ run'.analyzed = <<>> /\ run'.ranked = <<>> /\ run'.presented = <<>>
                 /\ run'.exported = None /\ run'.recorded = <<>>
                 /\ history_file' = history_file
            ELSE /\ run'.outcome = "success"
                 /\ run'.analyzed = [n \in 1..Len(OkEvents) |->
                                        <<batch.issues[OkEvents[n].i + 1], OkEvents[n].analysis>>]
                 /\ Len(run'.ranked) = Len(OkEvents)
                 /\ RankedPairs(run'.ranked) =
                       {<<n, run'.analyzed[n][1], run'.analyzed[n][2]>> :
                           n \in 1..Len(run'.analyzed)}
                 /\ Len(run'.presented) >= 1
                 /\ \A n \in 1..Len(run'.presented) : run'.presented[n] = run'.ranked[n]
                 /\ run'.exported \in {None, [list |-> run'.ranked]}
                 /\ Len(run'.recorded) \in {0, Len(OkEvents)}]_vars

(* three issues were passed to the analyzer, the assessment failed for the  *)
(* first, and the run ranked, exported and recorded the other two           *)
C21_Witness ==
    /\ run.pc = "done"
    /\ run.outcome = "success"
    /\ run.message = "Successfully analyzed 2 issues"
    /\ Len(run.passed) = 3
    /\ ~DoneEvents[1].ok /\ DoneEvents[2].ok /\ DoneEvents[3].ok
    /\ Len(run.ranked) = 2
    /\ run.exported = [list |-> run.ranked]
    /\ run.recorded = <<"o/r#1", "o/r#2">>
    /\ DOMAIN history_file = {"o/r#1", "o/r#2"}

(* C22: when the credential of the assessment collaborator is missing the   *)
(* run fails hard before any batch work: it ends raised, no progress        *)
(* callback is made, no cache lookup, no assessment call, and no issue is   *)
(* skipped                                                                  *)
C22_MissingCredentialFailsHard ==
    (run.pc # "idle" /\ run.credential = "missing") =>
        /\ run.pc = "done"
        /\ run.outcome = "raised"
        /\ Len(ProgressEvents) = 0
        /\ gets.llm = 0
        /\ llm_calls = 0
        /\ Len(DoneEvents) = 0

(* the history key of an issue *)
KeyOf(issue) == issue.repo_name \o "#" \o ToString(issue.id)

====
